---------------------------- MODULE Spec2Model ----------------------------
(***************************************************************************)
(* A model of vdsm's network switch dispatch (lib/vdsm/network/netswitch), *)
(* of its OVS setup sequence and of the ovs-vsctl command batching driver  *)
(* (lib/vdsm/network/ovs/driver/vsctl).                                    *)
(*                                                                         *)
(* Python dictionaries are functions whose DOMAIN is the set of keys that  *)
(* are present: "'remove' in attrs" is "remove" \in DOMAIN attrs.          *)
(* Three specifications share the module: SpecRouter (validate and setup   *)
(* of netswitch), SpecOvs (_setup_ovs, one action per statement) and       *)
(* SpecVsctl (Transaction.add and Transaction.commit).                     *)
(***************************************************************************)
EXTENDS Integers, Sequences, FiniteSets, Bags, TLC

VARIABLES
    \* ---- netswitch.validate / netswitch.setup
    networks,        \* the caller's networks argument: name -> attrs
    bondings,        \* the caller's bondings argument: name -> attrs
    running,         \* what netinfo() reports: [networks, bondings], name -> attrs
    phase,           \* "start", "validated", "done"
    validated,       \* outcome of validate(networks, bondings)
    dispatched,      \* outcome of setup(networks, bondings, options, in_rollback)
    \* ---- netswitch._setup_ovs(ovs_nets, ovs_bonds, options, in_rollback)
    ovs_nets,        \* its networks argument: name -> attrs
    ovs_bonds,       \* its bondings argument: name -> attrs
    ovs_netinfo,     \* the snapshot create_netinfo() gave: [networks, bondings]
    pc,              \* the statement _setup_ovs is at
    actions,         \* the six dictionaries of _split_setup_actions
    trace,           \* the statements attempted so far, in order
    raised_at,       \* the statement that raised, None when none did
    effects,         \* every call made on a collaborator so far
    \* ---- vsctl.Transaction
    commands,        \* self.commands: the queued Command objects, [cmd, result, kind]
    last_commit,     \* the latest commit(): its external calls and its outcome
    scope,           \* the "with Transaction() as t" block: "open", "closed"
    self,            \* a Command object execute() is called on
    executed,        \* the latest self.execute(): its external calls and outcome
    uuids,           \* the values uuid.uuid4() has returned
    \* ---- vsctl._val_to_py / vsctl._normalize
    val,             \* the JSON value handed to _val_to_py
    decoded,         \* what _val_to_py(val) returned or raised
    heading,         \* the heading handed to _normalize
    normalized,      \* what _normalize(heading, decoded) returned
    codec_pc,        \* "start", "decoded", "normalized", "renormalized"
    \* ---- netswitch.netinfo
    host,            \* what the collaborators of netinfo() report
    netinfo_call,    \* the locals of one netinfo() call and its outcome
    \* ---- misc.DynamicBarrier / misc.SamplingMethod
    busy,            \* DynamicBarrier._busy
    tpc,             \* where each thread is: thread -> position
    served,          \* per thread, what has happened since it called enter()
    exit_raised,     \* the latest exit(): [thread, raised]
    lastResult,      \* SamplingMethod.__lastResult: the number of the
                     \* evaluation it is the result of, 0 for None
    evaluations,     \* the evaluations of the wrapped function so far, in
                     \* order: "running", "returned" or "raised"
    sm_calls,        \* per thread, its latest call of the sampling method
    \* ---- misc.itmap
    itmap_args,      \* the arguments func, iterable, maxthreads
    itmap_locals,    \* maxthreads, threadsCount, and the elements not yet taken
    workers,         \* the threads started that have not put their result
    respQueue,       \* the items put and not yet taken
    yielded,         \* the items the generator has yielded, in order
    itmap_pc,        \* where the generator is
    \* ---- virt.utils.DynamicBoundedSemaphore and its tests
    sem,             \* the semaphore: its bound and the number held
    sem_last,        \* the latest operation on it and its outcome
    test,            \* the test method that runs, and how far it is
    \* ---- vsctl.DBResultCommand.set_raw_result on a table
    reply,           \* jdata: what json.loads gave for the line of a list command
    db_result,       \* the _result set_raw_result computed from it
    \* ---- vsctl._ovs_vsctl_cmd and the commits that call it
    installed,       \* where ovs-vsctl is on the host at this moment
    cmd_cache,       \* what memoized keeps for _ovs_vsctl_cmd, None before
    lookups,         \* how often the body of _ovs_vsctl_cmd has run
    commit_log,      \* per commit() so far: the path it executed, None if none
    queued,          \* len(self.commands) of the transaction at hand
    \* ---- another setup call between validate and setup
    raced,           \* the running configuration before that call
    \* ---- misc.Event
    event_sync,      \* self._sync
    registrar,       \* self._registrar: per registered function, its oneshot flag
    funcs,           \* per function: is it alive, how it was registered
                     \* last, and the emissions that invoked it since
    emissions,       \* per emit() so far: what it saw and how far it is
    invocations,     \* the invocations made: <<function, emission, how>>
    unregister_raised \* what the latest unregister() raised

routerVars == <<networks, bondings, running, phase, validated, dispatched>>

ovsVars == <<ovs_nets, ovs_bonds, ovs_netinfo, pc, actions, trace, raised_at, effects>>

vsctlVars == <<commands, last_commit, scope, self, executed, uuids>>

codecVars == <<val, decoded, heading, normalized, codec_pc>>

netinfoVars == <<host, netinfo_call>>

barrierVars == <<busy, tpc, served, exit_raised, lastResult, evaluations, sm_calls>>

itmapVars == <<itmap_args, itmap_locals, workers, respQueue, yielded, itmap_pc>>

semVars == <<sem, sem_last, test>>

tableVars == <<reply, db_result>>

lookupVars == <<installed, cmd_cache, lookups, commit_log, queued>>

raceVars == <<raced>>

eventVars == <<event_sync, registrar, funcs, emissions, invocations, unregister_raised>>

vars == <<routerVars, ovsVars, vsctlVars, codecVars, netinfoVars, barrierVars,
          itmapVars, semVars,
    tableVars,
    lookupVars,
    raceVars,
    eventVars>>

\* What a part leaves alone: the variables of every other part.
notRouterVars == <<ovsVars, vsctlVars, codecVars, netinfoVars,
    barrierVars, itmapVars, semVars,
    tableVars,
    lookupVars,
    raceVars,
    eventVars>>

notOvsVars == <<routerVars, vsctlVars, codecVars, netinfoVars,
    barrierVars, itmapVars, semVars,
    tableVars,
    lookupVars,
    raceVars,
    eventVars>>

notVsctlVars == <<routerVars, ovsVars, codecVars, netinfoVars,
    barrierVars, itmapVars, semVars,
    tableVars,
    lookupVars,
    raceVars,
    eventVars>>

notCodecVars == <<routerVars, ovsVars, vsctlVars, netinfoVars,
    barrierVars, itmapVars, semVars,
    tableVars,
    lookupVars,
    raceVars,
    eventVars>>

notNetinfoVars == <<routerVars, ovsVars, vsctlVars, codecVars,
    barrierVars, itmapVars, semVars,
    tableVars,
    lookupVars,
    raceVars,
    eventVars>>

notBarrierVars == <<routerVars, ovsVars, vsctlVars, codecVars, netinfoVars,
    itmapVars, semVars,
    tableVars,
    lookupVars,
    raceVars,
    eventVars>>

notItmapVars == <<routerVars, ovsVars, vsctlVars, codecVars, netinfoVars,
    barrierVars, semVars,
    tableVars,
    lookupVars,
    raceVars,
    eventVars>>

notSemVars == <<routerVars, ovsVars, vsctlVars, codecVars, netinfoVars,
    barrierVars, itmapVars,
    tableVars,
    lookupVars,
    raceVars,
    eventVars>>

notTableVars == <<routerVars, ovsVars, vsctlVars, codecVars, netinfoVars,
    barrierVars, itmapVars, semVars,
    lookupVars,
    raceVars,
    eventVars>>

notLookupVars == <<routerVars, ovsVars, vsctlVars, codecVars, netinfoVars,
    barrierVars, itmapVars, semVars, tableVars,
    raceVars,
    eventVars>>

notRaceVars == <<routerVars, ovsVars, vsctlVars, codecVars, netinfoVars,
    barrierVars, itmapVars, semVars, tableVars, lookupVars,
    eventVars>>

notRouterRaceVars == <<ovsVars, vsctlVars, codecVars, netinfoVars, barrierVars,
    itmapVars, semVars, tableVars, lookupVars,
    eventVars>>

notEventVars == <<routerVars, ovsVars, vsctlVars, codecVars, netinfoVars,
    barrierVars, itmapVars, semVars, tableVars, lookupVars, raceVars>>

-----------------------------------------------------------------------------
\* Bounds and the universes the inputs are drawn from.

\* The largest number of entries (networks plus bondings) of one request.
MaxEntries == 2

NetNames == {"net0", "net1"}
BondNames == {"bond0"}

LEGACY_SWITCH_TYPE == "legacy"
OVS_SWITCH_TYPE == "ovs"

\* Python's None.
None == "None"

\* The value of dict(...)[key] / dict.get(key): None when the key is absent.
Get(d, key) == IF key \in DOMAIN d THEN d[key] ELSE None

\* The dictionary d restricted to the keys in S.
Restrict(d, S) == [k \in S |-> d[k]]

\* d1.update(d2) as a value: d2's entries win.
Update(d1, d2) ==
    [k \in DOMAIN d1 \cup DOMAIN d2 |-> IF k \in DOMAIN d2 THEN d2[k] ELSE d1[k]]

EmptyDict == [k \in {} |-> TRUE]

\* Switch tags a request or the running configuration may carry; "bogus"
\* stands for every value that is neither 'legacy' nor 'ovs'.
SwitchTags == {LEGACY_SWITCH_TYPE, OVS_SWITCH_TYPE, "bogus"}

\* Attributes of a requested entry, as far as the dispatch reads them.
RouterAttrs ==
    {[switch |-> s] : s \in SwitchTags}
    \cup {EmptyDict, [remove |-> TRUE], [remove |-> TRUE, switch |-> OVS_SWITCH_TYPE]}

\* Attributes of an entry reported by netinfo(): with or without 'switch'.
RunningAttrs == {[switch |-> s] : s \in SwitchTags} \cup {[bridged |-> TRUE]}

\* All dictionaries with keys among Names and values in Attrs.
Dicts(Names, Attrs) == UNION {[S -> Attrs] : S \in SUBSET Names}

-----------------------------------------------------------------------------
\* Errors.

NoError == [type |-> "none", code |-> "none", msg |-> "none"]

ConfigNetworkError(code, msg) ==
    [type |-> "ConfigNetworkError", code |-> code, msg |-> msg]

KeyError(key) == [type |-> "KeyError", code |-> "none", msg |-> key]

ERR_BAD_PARAMS == "ERR_BAD_PARAMS"

-----------------------------------------------------------------------------
\* netswitch._split_switch_type_entries

\* A variant that reads the switch type of every entry, removed or not, from
\* the request.
ResolvedSwitchTypeFromRequest(name, attrs, running_entries) ==
    IF "switch" \in DOMAIN attrs THEN attrs["switch"]
    ELSE IF "remove" \in DOMAIN attrs THEN None ELSE "KeyError"

\* A variant that takes the switch type of every entry the running
\* configuration knows from there.
ResolvedSwitchTypeRunningFirst(name, attrs, running_entries) ==
    IF "remove" \in DOMAIN attrs \/ name \in DOMAIN running_entries
    THEN LET running_attrs == IF name \in DOMAIN running_entries
                              THEN running_entries[name] ELSE EmptyDict
         IN  Get(running_attrs, "switch")
    ELSE IF "switch" \in DOMAIN attrs THEN attrs["switch"] ELSE "KeyError"

\* The switch type store_entry is called with for one entry; "KeyError" when
\* a non-remove entry has no 'switch' key (attrs['switch'] raises).
ResolvedSwitchType(name, attrs, running_entries) ==
    IF "remove" \in DOMAIN attrs
    THEN LET running_attrs == IF name \in DOMAIN running_entries
                              THEN running_entries[name] ELSE EmptyDict
         IN  Get(running_attrs, "switch")
    ELSE IF "switch" \in DOMAIN attrs THEN attrs["switch"] ELSE "KeyError"

\* A variant that hands an entry without a recorded switch type to OVS.
StoreEntryBrokenToOvs(switch_type) ==
    IF switch_type = None THEN "ovs"
    ELSE IF switch_type = LEGACY_SWITCH_TYPE THEN "legacy"
    ELSE IF switch_type = OVS_SWITCH_TYPE THEN "ovs"
    ELSE "raise"

\* The bucket store_entry puts an entry with this switch type into:
\* "legacy", "ovs", or "raise" when it raises.
StoreEntry(switch_type) ==
    IF switch_type = None THEN "legacy"
    ELSE IF switch_type = LEGACY_SWITCH_TYPE THEN "legacy"
    ELSE IF switch_type = OVS_SWITCH_TYPE THEN "ovs"
    ELSE "raise"

\* The exception that processing one entry raises, NoError when it is stored.
EntryError(name, attrs, running_entries) ==
    LET switch_type == ResolvedSwitchType(name, attrs, running_entries)
    IN  IF switch_type = "KeyError" THEN KeyError("switch")
        ELSE IF StoreEntry(switch_type) # "raise" THEN NoError
        ELSE IF "switch" \in DOMAIN attrs
             THEN ConfigNetworkError(ERR_BAD_PARAMS, "Invalid switch type")
             ELSE KeyError("switch")

\* The result of _split_switch_type_entries: the two buckets, and the
\* exceptions the loop may end with (the first raising entry in the
\* dictionary's iteration order, which is any raising entry).
SplitSwitchTypeEntries(entries, running_entries) ==
    LET bucket(n) == StoreEntry(ResolvedSwitchType(n, entries[n], running_entries))
    IN  [errors |-> {EntryError(n, entries[n], running_entries) :
                        n \in DOMAIN entries} \ {NoError},
         legacy_entries |-> Restrict(entries, {n \in DOMAIN entries : bucket(n) = "legacy"}),
         ovs_entries |-> Restrict(entries, {n \in DOMAIN entries : bucket(n) = "ovs"})]

\* netswitch._split_switch_type: networks are split before bondings, so an
\* exception of the networks hides the bondings'.
SplitSwitchType(nets, bonds, netinfo) ==
    LET n == SplitSwitchTypeEntries(nets, netinfo.networks)
        b == SplitSwitchTypeEntries(bonds, netinfo.bondings)
    IN  [errors |-> IF n.errors # {} THEN n.errors ELSE b.errors,
         legacy_nets |-> n.legacy_entries, ovs_nets |-> n.ovs_entries,
         legacy_bonds |-> b.legacy_entries, ovs_bonds |-> b.ovs_entries]

\* "legacy_nets or legacy_bonds": a dictionary is true when it is not empty.
UseSwitch(nets, bonds) == DOMAIN nets # {} \/ DOMAIN bonds # {}

\* A variant that compares the networks' buckets only.
MixedSwitchTypesNetsOnly(split) ==
    DOMAIN split.legacy_nets # {} /\ DOMAIN split.ovs_nets # {}

\* The condition under which validate raises the mixing error.
MixedSwitchTypes(split) ==
    /\ UseSwitch(split.legacy_nets, split.legacy_bonds)
    /\ UseSwitch(split.ovs_nets, split.ovs_bonds)

\* A variant that looks at the OVS buckets first.
SelectedSwitchOvsFirst(split) ==
    IF UseSwitch(split.ovs_nets, split.ovs_bonds) THEN OVS_SWITCH_TYPE
    ELSE IF UseSwitch(split.legacy_nets, split.legacy_bonds) THEN LEGACY_SWITCH_TYPE
    ELSE None

\* The backend validate and setup select once the buckets are made:
\* the legacy one when it has work, else the OVS one when it has, else none.
SelectedSwitch(split) ==
    IF UseSwitch(split.legacy_nets, split.legacy_bonds) THEN LEGACY_SWITCH_TYPE
    ELSE IF UseSwitch(split.ovs_nets, split.ovs_bonds) THEN OVS_SWITCH_TYPE
    ELSE None

\* What the selected backend is called with.
BackendCall(split, switch) ==
    IF switch = LEGACY_SWITCH_TYPE
    THEN [switch |-> switch, nets |-> split.legacy_nets, bonds |-> split.legacy_bonds]
    ELSE IF switch = OVS_SWITCH_TYPE
    THEN [switch |-> switch, nets |-> split.ovs_nets, bonds |-> split.ovs_bonds]
    ELSE [switch |-> None, nets |-> EmptyDict, bonds |-> EmptyDict]

NoCall == [switch |-> None, nets |-> EmptyDict, bonds |-> EmptyDict]

\* An outcome of validate or setup: the exception raised by the function's
\* own code (NoError when none), the backend call made, and whether that
\* backend call returned or raised.
Outcome(error, call, backend) == [error |-> error, call |-> call, backend |-> backend]

NotRun == Outcome(NoError, NoCall, "not run")

-----------------------------------------------------------------------------
\* netswitch.validate

Validate ==
    /\ phase = "start"
    /\ LET split == SplitSwitchType(networks, bondings, running)
       IN  \/ \E e \in split.errors : validated' = Outcome(e, NoCall, "none")
           \/ /\ split.errors = {}
              /\ MixedSwitchTypes(split)
              /\ validated' = Outcome(
                    ConfigNetworkError(ERR_BAD_PARAMS, "Mixing of legacy and OVS"),
                    NoCall, "none")
           \/ /\ split.errors = {}
              /\ ~MixedSwitchTypes(split)
              /\ LET switch == SelectedSwitch(split)
                 IN  \E result \in IF switch = None THEN {"none"}
                                   ELSE {"returned", "raised"} :
                        validated' = Outcome(NoError, BackendCall(split, switch), result)
    /\ phase' = "validated"
    /\ UNCHANGED <<networks, bondings, running, dispatched>>
    /\ UNCHANGED notRouterVars

\* netswitch.setup: the dispatch; the selected path then runs or raises.
Setup ==
    /\ phase \in {"validated", "raced"}
    /\ LET split == SplitSwitchType(networks, bondings, running)
       IN  \/ \E e \in split.errors : dispatched' = Outcome(e, NoCall, "none")
           \/ /\ split.errors = {}
              /\ LET switch == SelectedSwitch(split)
                 IN  \E result \in IF switch = None THEN {"none"}
                                   ELSE {"returned", "raised"} :
                        dispatched' = Outcome(NoError, BackendCall(split, switch), result)
    /\ phase' = "done"
    /\ UNCHANGED <<networks, bondings, running, validated>>
    /\ UNCHANGED notRouterVars

RouterInit ==
    /\ networks \in Dicts(NetNames, RouterAttrs)
    /\ bondings \in Dicts(BondNames, RouterAttrs)
    /\ Cardinality(DOMAIN networks) + Cardinality(DOMAIN bondings) <= MaxEntries
    /\ running \in [networks : Dicts(NetNames, RunningAttrs),
                    bondings : Dicts(BondNames, RunningAttrs)]
    /\ phase = "start"
    /\ validated = NotRun
    /\ dispatched = NotRun

RouterNext == Validate \/ Setup

\* The entries d with the entry of name set to attrs, or dropped when attrs
\* is the empty dictionary.
WithEntry(d, name, attrs) ==
    IF attrs = EmptyDict THEN Restrict(d, DOMAIN d \ {name})
    ELSE Update(d, [k \in {name} |-> attrs])

\* No other setup call has run.
NotRaced == [raced |-> FALSE]

\* Between the validate and the setup of the request another setup call
\* runs and leaves one network or one bonding of the running configuration
\* added, changed or removed; netinfo() reports what is there when it is
\* called.
OtherSetup ==
    /\ phase = "validated"
    /\ raced = NotRaced
    /\ \E attrs \in RunningAttrs \cup {EmptyDict} :
          \/ \E n \in NetNames :
                running' = [running EXCEPT !.networks = WithEntry(@, n, attrs)]
          \/ \E b \in BondNames :
                running' = [running EXCEPT !.bondings = WithEntry(@, b, attrs)]
    /\ running' # running
    /\ raced' = running
    /\ phase' = "raced"
    /\ UNCHANGED <<networks, bondings, validated, dispatched>>
    /\ UNCHANGED notRouterRaceVars

RaceIdle == raced = NotRaced

RouterRaceNext == Validate \/ OtherSetup \/ Setup

-----------------------------------------------------------------------------
\* netswitch._setup_ovs and the functions it calls.

NicNames == {"eth0", "eth1", "eth2"}

\* Attributes of a network handed to _setup_ovs, as far as it reads them.
OvsNetAttrs ==
    {[remove |-> TRUE],
     [switch |-> OVS_SWITCH_TYPE, nic |-> "eth0", ipv6autoconf |-> FALSE,
      ipaddr |-> "10.0.0.1", netmask |-> "255.0.0.0"],
     [switch |-> OVS_SWITCH_TYPE, bonding |-> "bond0", ipv6autoconf |-> TRUE,
      bootproto |-> "dhcp", blockingdhcp |-> TRUE],
     [switch |-> OVS_SWITCH_TYPE, ipv6autoconf |-> FALSE, bootproto |-> "none"],
     [switch |-> OVS_SWITCH_TYPE, nic |-> "eth1", ipv6autoconf |-> TRUE,
      bootproto |-> "dhcp"],
     [switch |-> OVS_SWITCH_TYPE, nic |-> "eth2"]}

\* Attributes of a bonding handed to _setup_ovs.
OvsBondAttrs ==
    {[remove |-> TRUE],
     [switch |-> OVS_SWITCH_TYPE, nics |-> {"eth0", "eth1"}],
     [switch |-> OVS_SWITCH_TYPE, nics |-> {"eth1", "eth2"}]}

\* A variant that looks an entry up in the snapshot before it looks at its
\* remove flag: a removal of an entry the snapshot lacks becomes an addition.
SplitSetupActionsRunningFirst(query, running_entries) ==
    LET added == {e \in DOMAIN query : e \notin running_entries}
        removed == {e \in DOMAIN query \ added : "remove" \in DOMAIN query[e]}
        edited == (DOMAIN query \ added) \ removed
    IN  [add |-> Restrict(query, added),
         edit |-> Restrict(query, edited),
         remove |-> Restrict(query, removed)]

\* netswitch._split_setup_actions
SplitSetupActions(query, running_entries) ==
    LET removed == {e \in DOMAIN query : "remove" \in DOMAIN query[e]}
        edited == {e \in DOMAIN query \ removed : e \in running_entries}
        added == (DOMAIN query \ removed) \ edited
    IN  [add |-> Restrict(query, added),
         edit |-> Restrict(query, edited),
         remove |-> Restrict(query, removed)]

\* A variant that updates the running configuration inside the scope.
StepOrderConfigInScope ==
    <<"remove_nets", "remove_bonds", "edit_bonds", "add_bonds", "add_nets",
      "update_running_config", "scope_exit", "cleanup", "setup_ipv6autoconf",
      "set_ovs_links_up", "setup_ovs_ip_config", "connectivity_check">>

\* A variant that adds the networks before the bonds.
StepOrderNetsFirst ==
    <<"remove_nets", "remove_bonds", "edit_bonds", "add_nets", "add_bonds",
      "scope_exit", "update_running_config", "cleanup", "setup_ipv6autoconf",
      "set_ovs_links_up", "setup_ovs_ip_config", "connectivity_check">>

\* A variant that checks connectivity before it configures IP.
StepOrderCheckBeforeIp ==
    <<"remove_nets", "remove_bonds", "edit_bonds", "add_bonds", "add_nets",
      "scope_exit", "update_running_config", "cleanup", "setup_ipv6autoconf",
      "set_ovs_links_up", "connectivity_check", "setup_ovs_ip_config">>

\* The statements of _setup_ovs that call a collaborator, in program order:
\* the five calls inside the create_setup scope, the scope's exit, and the
\* six calls that follow it inside the running-config transaction.
StepOrder ==
    <<"remove_nets", "remove_bonds", "edit_bonds", "add_bonds", "add_nets",
      "scope_exit", "update_running_config", "cleanup", "setup_ipv6autoconf",
      "set_ovs_links_up", "setup_ovs_ip_config", "connectivity_check">>

IndexOf(seq, x) == CHOOSE i \in DOMAIN seq : seq[i] = x

\* The statement that follows step when step returns.
After(step) ==
    LET i == IndexOf(StepOrder, step)
    IN  IF i = Len(StepOrder) THEN "done" ELSE StepOrder[i + 1]

\* A variant that attempts a statement again when it raised.
NextPcRetry(step, returned) == IF returned THEN After(step) ELSE step

\* Where control goes after step: on when it returned, out of the function
\* when it raised (_setup_ovs has no except clause and no loop).
NextPc(step, returned) == IF returned THEN After(step) ELSE "raised"

NoEffects ==
    [issued |-> <<>>,          \* calls on the setup handle s: <<op, entries>>
     config_calls |-> EmptyBag, \* running-config calls
     autoconf_calls |-> EmptyBag,
     links_up |-> EmptyBag,     \* ipwrapper.linkSet(dev, ['up'])
     ip_calls |-> EmptyBag]     \* address.* and dhclient.* calls

\* A variant that undoes everything when the connectivity check raises.
UnwindReverting(step, applied) ==
    IF step = "connectivity_check" THEN NoEffects ELSE applied

\* What an exception leaves of the effects applied so far: the with blocks
\* of _setup_ovs only propagate it, nothing is undone.
Unwind(step, applied) == applied

\* One statement of _setup_ovs is attempted and raises, with the effects
\* some_done it had applied before.
Fails(step, some_done) ==
    /\ pc = step
    /\ trace' = Append(trace, step)
    /\ pc' = NextPc(step, FALSE)
    /\ \E partial \in some_done : effects' = Unwind(step, partial)
    /\ raised_at' = step
    /\ UNCHANGED <<ovs_nets, ovs_bonds, ovs_netinfo, actions>>
    /\ UNCHANGED notOvsVars

\* One statement of _setup_ovs is attempted: it returns with the effects
\* done, or it raises with the effects some_done it had applied before.
Attempt(step, done, some_done) ==
    \/ /\ pc = step
       /\ trace' = Append(trace, step)
       /\ pc' = NextPc(step, TRUE)
       /\ effects' = done
       /\ UNCHANGED raised_at
       /\ UNCHANGED <<ovs_nets, ovs_bonds, ovs_netinfo, actions>>
       /\ UNCHANGED notOvsVars
    \/ Fails(step, some_done)

\* A call on the setup handle: issued whether it then returns or raises.
Issue(op, entries) ==
    LET e == [effects EXCEPT !.issued = Append(@, <<op, entries>>)]
    IN  Attempt(op, e, {e})

\* lines 144-150: the snapshot is diffed into the six dictionaries.
SplitActions ==
    /\ pc = "start"
    /\ LET n == SplitSetupActions(ovs_nets, ovs_netinfo.networks)
           b == SplitSetupActions(ovs_bonds, ovs_netinfo.bondings)
       IN  actions' = [nets2add |-> n.add, nets2edit |-> n.edit,
                       nets2remove |-> n.remove, bonds2add |-> b.add,
                       bonds2edit |-> b.edit, bonds2remove |-> b.remove]
    /\ pc' = "merge_edits"
    /\ UNCHANGED <<ovs_nets, ovs_bonds, ovs_netinfo, trace, raised_at, effects>>
    /\ UNCHANGED notOvsVars

\* A variant that adds the edited networks without removing them first.
MergeEditsIntoAdd ==
    /\ pc = "merge_edits"
    /\ actions' = [actions EXCEPT !.nets2add = Update(@, actions.nets2edit)]
    /\ pc' = StepOrder[1]
    /\ UNCHANGED <<ovs_nets, ovs_bonds, ovs_netinfo, trace, raised_at, effects>>
    /\ UNCHANGED notOvsVars

\* A variant that treats edited bonds as it treats edited networks: they
\* join bonds2add and bonds2remove as well.
MergeEditsBondsToo ==
    /\ pc = "merge_edits"
    /\ actions' = [actions EXCEPT
                      !.nets2add = Update(@, actions.nets2edit),
                      !.nets2remove = Update(@, actions.nets2edit),
                      !.bonds2add = Update(@, actions.bonds2edit),
                      !.bonds2remove = Update(@, actions.bonds2edit)]
    /\ pc' = StepOrder[1]
    /\ UNCHANGED <<ovs_nets, ovs_bonds, ovs_netinfo, trace, raised_at, effects>>
    /\ UNCHANGED notOvsVars

\* lines 154-158: edited networks join both nets2add and nets2remove, then
\* the two scopes are entered.
MergeEdits ==
    /\ pc = "merge_edits"
    /\ actions' = [actions EXCEPT
                      !.nets2add = Update(@, actions.nets2edit),
                      !.nets2remove = Update(@, actions.nets2edit)]
    /\ pc' = StepOrder[1]
    /\ UNCHANGED <<ovs_nets, ovs_bonds, ovs_netinfo, trace, raised_at, effects>>
    /\ UNCHANGED notOvsVars

RemoveNets == Issue("remove_nets", actions.nets2remove)

RemoveBonds == Issue("remove_bonds", actions.bonds2remove)

EditBonds == Issue("edit_bonds", actions.bonds2edit)

AddBonds == Issue("add_bonds", actions.bonds2add)

AddNets == Issue("add_nets", actions.nets2add)

\* The create_setup scope is left: its exit returns or raises.
ScopeExit == Attempt("scope_exit", effects, {effects})

\* The bag of the calls in the set S.
CallsBag(S) == SetToBag(S)

\* A variant that sets every entry, remove-flagged or not.
ConfigCallsAlwaysSet(entries, remove_op, set_op) ==
    {<<set_op, n, entries[n]>> : n \in DOMAIN entries}

\* netswitch._update_running_config: the calls for one kind of entry.
ConfigCalls(entries, remove_op, set_op) ==
    {IF "remove" \in DOMAIN entries[n]
        THEN <<remove_op, n>>
        ELSE <<set_op, n, entries[n]>> : n \in DOMAIN entries}

\* The networks are walked before the bondings: when the function raises,
\* a bonding call was made only if every network call was.
UpdateRunningConfig ==
    LET net_calls == ConfigCalls(ovs_nets, "removeNetwork", "setNetwork")
        bond_calls == ConfigCalls(ovs_bonds, "removeBonding", "setBonding")
        with(S) == [effects EXCEPT !.config_calls = @ (+) CallsBag(S)]
    IN  Attempt("update_running_config",
                with(net_calls \cup bond_calls),
                {with(S) : S \in {T \in SUBSET (net_calls \cup bond_calls) :
                                    /\ T # net_calls \cup bond_calls
                                    /\ T \cap bond_calls # {} => net_calls \subseteq T}})

Cleanup == Attempt("cleanup", effects, {effects})

\* A variant that disables autoconf for the remove-flagged networks.
Ipv6AutoconfCallsOfAll(nets) ==
    {<<IF "ipv6autoconf" \in DOMAIN nets[n] /\ nets[n]["ipv6autoconf"]
          THEN "enable_ipv6_local_auto"
          ELSE "disable_ipv6_local_auto", n>> :
        n \in {m \in DOMAIN nets : "remove" \in DOMAIN nets[m]
                                      \/ "ipv6autoconf" \in DOMAIN nets[m]}}

\* netswitch._setup_ipv6autoconf: the calls for the networks that are not
\* remove-flagged and carry 'ipv6autoconf'.
Ipv6AutoconfCalls(nets) ==
    {<<IF nets[n]["ipv6autoconf"] THEN "enable_ipv6_local_auto"
                                  ELSE "disable_ipv6_local_auto", n>> :
        n \in {m \in DOMAIN nets : /\ "remove" \notin DOMAIN nets[m]
                                     /\ "ipv6autoconf" \in DOMAIN nets[m]}}

\* attrs['ipv6autoconf'] raises KeyError for a network that is not
\* remove-flagged and has no such key.
Ipv6AutoconfKeyError(nets) ==
    \E n \in DOMAIN nets : /\ "remove" \notin DOMAIN nets[n]
                            /\ "ipv6autoconf" \notin DOMAIN nets[n]

SetupIpv6Autoconf ==
    LET calls == Ipv6AutoconfCalls(ovs_nets)
        with(S) == [effects EXCEPT !.autoconf_calls = @ (+) CallsBag(S)]
    IN  IF Ipv6AutoconfKeyError(ovs_nets)
        THEN Fails("setup_ipv6autoconf", {with(S) : S \in SUBSET calls})
        ELSE Attempt("setup_ipv6autoconf", with(calls),
                     {with(S) : S \in SUBSET calls \ {calls}} \cup {effects})

\* A variant that leaves the nics of the added networks out.
GatherOvsIfacesNamesOnly(nets2add, bonds2add, bonds2edit) ==
    LET nets_and_bonds == DOMAIN nets2add \cup DOMAIN bonds2add \cup DOMAIN bonds2edit
        bonds_nics == UNION ({bonds2add[b]["nics"] : b \in DOMAIN bonds2add}
                             \cup {bonds2edit[b]["nics"] : b \in DOMAIN bonds2edit})
    IN  SetToBag(nets_and_bonds) (+) SetToBag(bonds_nics)

\* A variant that leaves the edited bonds out.
GatherOvsIfacesAddedOnly(nets2add, bonds2add, bonds2edit) ==
    LET nets_and_bonds == DOMAIN nets2add \cup DOMAIN bonds2add
        nets_nics == {nets2add[n]["nic"] :
                        n \in {m \in DOMAIN nets2add : "nic" \in DOMAIN nets2add[m]}}
        bonds_nics == UNION {bonds2add[b]["nics"] : b \in DOMAIN bonds2add}
    IN  SetToBag(nets_and_bonds) (+) SetToBag(nets_nics) (+) SetToBag(bonds_nics)

\* netswitch._gather_ovs_ifaces: a chain of three sets, so a device that is
\* in two of them comes twice.
GatherOvsIfaces(nets2add, bonds2add, bonds2edit) ==
    LET nets_and_bonds == DOMAIN nets2add \cup DOMAIN bonds2add \cup DOMAIN bonds2edit
        nets_nics == {nets2add[n]["nic"] :
                        n \in {m \in DOMAIN nets2add : "nic" \in DOMAIN nets2add[m]}}
        bonds_nics == UNION ({bonds2add[b]["nics"] : b \in DOMAIN bonds2add}
                             \cup {bonds2edit[b]["nics"] : b \in DOMAIN bonds2edit})
    IN  SetToBag(nets_and_bonds) (+) SetToBag(nets_nics) (+) SetToBag(bonds_nics)

\* The bags that are part of the bag B and differ from it.
ProperSubBags(B) == SubBag(B) \ {B}

\* netswitch._set_ovs_links_up
SetOvsLinksUp ==
    LET devs == GatherOvsIfaces(actions.nets2add, actions.bonds2add, actions.bonds2edit)
        with(B) == [effects EXCEPT !.links_up = @ (+) B]
    IN  Attempt("set_ovs_links_up", with(devs),
                {with(B) : B \in ProperSubBags(devs)} \cup {effects})

\* A variant that takes the duid source from 'nic' alone.
AddIpCallsDuidFromNic(net, attrs) ==
    {<<"address.flush", net>>,
     <<"address.add", net, Get(attrs, "ipaddr"), Get(attrs, "netmask"),
       Get(attrs, "ipv6addr")>>}
    \cup IF Get(attrs, "bootproto") = "dhcp"
         THEN {<<"dhclient.run", net, Get(attrs, "nic"),
                 IF "blockingdhcp" \in DOMAIN attrs THEN attrs["blockingdhcp"] ELSE FALSE>>}
         ELSE {}

\* netswitch._set_static_ip_config and netswitch._set_dhcp_config of one
\* added network.
AddIpCalls(net, attrs) ==
    {<<"address.flush", net>>,
     <<"address.add", net, Get(attrs, "ipaddr"), Get(attrs, "netmask"),
       Get(attrs, "ipv6addr")>>}
    \cup IF Get(attrs, "bootproto") = "dhcp"
         THEN {<<"dhclient.run", net,
                 IF "bonding" \in DOMAIN attrs THEN attrs["bonding"] ELSE Get(attrs, "nic"),
                 IF "blockingdhcp" \in DOMAIN attrs THEN attrs["blockingdhcp"] ELSE FALSE>>}
         ELSE {}

\* netswitch._setup_ovs_ip_config
IpConfigCalls(nets2add, nets2remove) ==
    {<<"dhclient.stop", n>> : n \in DOMAIN nets2remove}
    \cup UNION {AddIpCalls(n, nets2add[n]) : n \in DOMAIN nets2add}

\* The calls S can be the ones made when _setup_ovs_ip_config raises: the
\* removed networks are walked before the added ones, the added ones one
\* after the other, and for each the addresses are flushed, then added,
\* then the DHCP client is run.
MadeInOrder(S, nets2add, nets2remove) ==
    /\ (\E c \in S : c[1] # "dhclient.stop") =>
          {<<"dhclient.stop", n>> : n \in DOMAIN nets2remove} \subseteq S
    /\ \A c \in S :
          /\ c[1] = "address.add" => <<"address.flush", c[2]>> \in S
          /\ c[1] = "dhclient.run" =>
                \E d \in S : d[1] = "address.add" /\ d[2] = c[2]
    /\ Cardinality({n \in DOMAIN nets2add :
                       AddIpCalls(n, nets2add[n]) \cap S
                           \notin {{}, AddIpCalls(n, nets2add[n])}}) <= 1

SetupOvsIpConfig ==
    LET calls == IpConfigCalls(actions.nets2add, actions.nets2remove)
        with(S) == [effects EXCEPT !.ip_calls = @ (+) CallsBag(S)]
    IN  Attempt("setup_ovs_ip_config", with(calls),
                {with(S) : S \in {T \in SUBSET calls \ {calls} :
                                    MadeInOrder(T, actions.nets2add, actions.nets2remove)}}
                \cup {effects})

\* connectivity.check(options)
ConnectivityCheck == Attempt("connectivity_check", effects, {effects})

OvsInit ==
    /\ ovs_nets \in Dicts(NetNames, OvsNetAttrs)
    /\ ovs_bonds \in Dicts(BondNames, OvsBondAttrs)
    /\ UseSwitch(ovs_nets, ovs_bonds)
    /\ Cardinality(DOMAIN ovs_nets) + Cardinality(DOMAIN ovs_bonds) <= MaxEntries
    /\ ovs_netinfo \in [networks : SUBSET NetNames, bondings : SUBSET BondNames]
    /\ pc = "start"
    /\ actions = [nets2add |-> EmptyDict, nets2edit |-> EmptyDict,
                  nets2remove |-> EmptyDict, bonds2add |-> EmptyDict,
                  bonds2edit |-> EmptyDict, bonds2remove |-> EmptyDict]
    /\ trace = <<>>
    /\ raised_at = None
    /\ effects = NoEffects

OvsNext ==
    \/ SplitActions \/ MergeEdits
    \/ RemoveNets \/ RemoveBonds \/ EditBonds \/ AddBonds \/ AddNets
    \/ ScopeExit \/ UpdateRunningConfig \/ Cleanup \/ SetupIpv6Autoconf
    \/ SetOvsLinksUp \/ SetupOvsIpConfig \/ ConnectivityCheck

-----------------------------------------------------------------------------
\* netswitch.netinfo

\* An entry netinfo_get() reports for a network, and one for a bonding.
LegacyNet(n) == [iface |-> n, bridged |-> TRUE, switch |-> LEGACY_SWITCH_TYPE]

LegacyBond(b) == [slaves |-> {"eth1"}, switch |-> LEGACY_SWITCH_TYPE]

\* An entry ovs_info.get_netinfo() reports for a network (OVS always has a
\* bridge), and one for a bonding.
OvsNet(n) == [iface |-> n, bridged |-> TRUE, switch |-> OVS_SWITCH_TYPE, ports |-> {"eth0"}]

OvsBond(b) == [slaves |-> {"eth0", "eth1"}, switch |-> OVS_SWITCH_TYPE]

\* Attributes of a network in RunningConfig().networks, as far as netinfo()
\* reads them.
RunningNetAttrs ==
    {[switch |-> OVS_SWITCH_TYPE, bridged |-> FALSE],
     [switch |-> OVS_SWITCH_TYPE, bridged |-> TRUE],
     [switch |-> LEGACY_SWITCH_TYPE, bridged |-> FALSE],
     [switch |-> OVS_SWITCH_TYPE],
     [bridged |-> FALSE]}

\* What the collaborators report: netinfo_get(), service_status, 
\* ovs_info.get_netinfo() and RunningConfig().networks.
Hosts ==
    [legacy : {[networks |-> [n \in S |-> LegacyNet(n)],
                bondings |-> [b \in B |-> LegacyBond(b)],
                nics |-> [i \in {"eth0", "eth1"} |-> [speed |-> 1000]]] :
                  S \in SUBSET NetNames, B \in SUBSET BondNames},
     service_running : BOOLEAN,
     ovs : {[networks |-> [n \in S |-> OvsNet(n)],
             bondings |-> [b \in B |-> OvsBond(b)]] :
               S \in SUBSET NetNames, B \in SUBSET BondNames},
     running_networks : Dicts(NetNames, RunningNetAttrs)]

\* The key whose lookup raises in the condition of line 270 for attrs, None
\* when none does ('and' does not evaluate attrs['bridged'] when the switch
\* is not 'ovs').
MissingKey(attrs) ==
    IF "switch" \notin DOMAIN attrs THEN "switch"
    ELSE IF attrs["switch"] = "ovs" /\ "bridged" \notin DOMAIN attrs THEN "bridged"
    ELSE None

\* A variant that takes every network that is not bridged.
BridgelessOvsNetsAnySwitch(running_networks) ==
    {net \in DOMAIN running_networks :
        /\ MissingKey(running_networks[net]) = None
        /\ "bridged" \in DOMAIN running_networks[net]
        /\ ~running_networks[net]["bridged"]}

\* lines 268-270, when no lookup raises.
BridgelessOvsNets(running_networks) ==
    {net \in DOMAIN running_networks :
        /\ MissingKey(running_networks[net]) = None
        /\ running_networks[net]["switch"] = "ovs"
        /\ ~running_networks[net]["bridged"]}

\* The record synthesized for a network without a bridge of its own: its
\* name and its nics.
Synthesized(net, ovs_networks, nics) ==
    [iface |-> net, bridged |-> FALSE, switch |-> OVS_SWITCH_TYPE,
     ports |-> IF net \in DOMAIN ovs_networks
               THEN ovs_networks[net]["ports"] \cap DOMAIN nics ELSE {}]

\* ovs_info.fake_bridgeless(ovs_netinfo, nics, nets), as the value it leaves
\* in its first argument.
FakeBridgelessOf(ovs_topology, nics, nets) ==
    [ovs_topology EXCEPT !["networks"] =
        Update(@, [n \in nets |-> Synthesized(n, ovs_topology["networks"], nics)])]

\* A variant in which an entry netinfo_get() reported stays.
OverlayKeepingLegacy(_netinfo, ovs_topology) ==
    [type \in DOMAIN _netinfo |->
        IF type \in DOMAIN ovs_topology
        THEN Update(ovs_topology[type], _netinfo[type])
        ELSE _netinfo[type]]

\* lines 274-275, when every kind of ovs_topology is a kind of _netinfo.
Overlay(_netinfo, ovs_topology) ==
    [type \in DOMAIN _netinfo |->
        IF type \in DOMAIN ovs_topology
        THEN Update(_netinfo[type], ovs_topology[type])
        ELSE _netinfo[type]]

NotCalled ==
    [pc |-> "idle", _netinfo |-> EmptyDict, ovs_netinfo |-> EmptyDict,
     bridgeless_ovs_nets |-> {}, raised |-> NoError, returned |-> None]

\* lines 262-264: the legacy topology is read and the service is asked for.
NetinfoGet ==
    /\ netinfo_call.pc = "start"
    /\ netinfo_call' = [netinfo_call EXCEPT !._netinfo = host.legacy,
                            !.pc = IF host.service_running THEN "ovs" ELSE "return"]
    /\ UNCHANGED host
    /\ UNCHANGED notNetinfoVars

\* lines 265-270: the OVS topology is read and the running configuration is
\* searched for the networks that have no bridge.
GetOvsNetinfo ==
    /\ netinfo_call.pc = "ovs"
    /\ LET missing == {MissingKey(host.running_networks[n]) :
                          n \in DOMAIN host.running_networks} \ {None}
       IN  \/ /\ missing = {}
              /\ netinfo_call' = [netinfo_call EXCEPT
                            !.ovs_netinfo = host.ovs,
                            !.bridgeless_ovs_nets = BridgelessOvsNets(host.running_networks),
                            !.pc = "fake_bridgeless"]
           \/ /\ missing # {}
              /\ \E key \in missing :
                    netinfo_call' = [netinfo_call EXCEPT !.ovs_netinfo = host.ovs,
                                         !.raised = KeyError(key),
                                         !.pc = "raised"]
    /\ UNCHANGED host
    /\ UNCHANGED notNetinfoVars

\* lines 271-272
FakeBridgeless ==
    /\ netinfo_call.pc = "fake_bridgeless"
    /\ netinfo_call' = [netinfo_call EXCEPT
                  !.ovs_netinfo = FakeBridgelessOf(netinfo_call.ovs_netinfo, netinfo_call._netinfo["nics"],
                                                   netinfo_call.bridgeless_ovs_nets),
                  !.pc = "merge"]
    /\ UNCHANGED host
    /\ UNCHANGED notNetinfoVars

\* lines 274-275: _netinfo[type] raises for a kind _netinfo lacks.
MergeOvs ==
    /\ netinfo_call.pc = "merge"
    /\ IF DOMAIN netinfo_call.ovs_netinfo \subseteq DOMAIN netinfo_call._netinfo
       THEN netinfo_call' = [netinfo_call EXCEPT !._netinfo = Overlay(netinfo_call._netinfo, netinfo_call.ovs_netinfo),
                                 !.pc = "return"]
       ELSE \E type \in DOMAIN netinfo_call.ovs_netinfo \ DOMAIN netinfo_call._netinfo :
               netinfo_call' = [netinfo_call EXCEPT !.raised = KeyError(type), !.pc = "raised"]
    /\ UNCHANGED host
    /\ UNCHANGED notNetinfoVars

\* line 277
NetinfoReturn ==
    /\ netinfo_call.pc = "return"
    /\ netinfo_call' = [netinfo_call EXCEPT !.returned = netinfo_call._netinfo, !.pc = "done"]
    /\ UNCHANGED host
    /\ UNCHANGED notNetinfoVars

NetinfoInit ==
    /\ host \in Hosts
    /\ netinfo_call = [NotCalled EXCEPT !.pc = "start"]

NetinfoNext ==
    \/ NetinfoGet \/ GetOvsNetinfo \/ FakeBridgeless \/ MergeOvs \/ NetinfoReturn

-----------------------------------------------------------------------------
\* ovs/driver/vsctl: Command and Transaction.

\* The largest number of commands queued in one transaction.
MaxCommands == 2

\* Text is a sequence of tokens. NL is the two characters backslash and n,
\* which ovs-vsctl --oneline prints in place of a newline inside a line.
NL == "\\n"

\* Output lines the external tool may print: an empty one, and one of two
\* pieces.
Lines == {<<>>, <<"a", NL, "b">>}

\* Lines of diagnostic text on stderr.
ErrTexts == {<<>>, <<"e1">>, <<"e1", "e2">>}

\* Argument vectors of commands: Vsctl.add_br(may_exist=True) and
\* Vsctl.do_nothing.
CommandArgs == {<<"--may-exist", "add-br", "br0">>, <<>>}

\* Python values a result can be: None, or a list.
PyNone == [type |-> "NoneType", value |-> <<>>]

PyList(items) == [type |-> "list", value |-> items]

\* All sequences over S of a length in lo..hi.
SeqsOf(S, lo, hi) == UNION {[1..n -> S] : n \in lo..hi}

-----------------------------------------------------------------------------
\* ovs/driver/vsctl: _val_to_py and _normalize.
\*
\* A Python value is a record of its type and its content: the content of a
\* str is its text, of a list its items, of a dict the function from its keys
\* to its values. An exception that leaves a function is the value Raise(e).

\* The longest list drawn as a payload.
MaxLen == 2

PyInt(n) == [type |-> "int", value |-> <<n>>]

PyStr(text) == [type |-> "str", value |-> text]

\* The string of one piece of text.
Str(token) == PyStr(<<token>>)

PyDict(f) == [type |-> "dict", value |-> f]

PyUUID(hex) == [type |-> "UUID", value |-> <<hex>>]

Raise(exception) == [type |-> "raise", value |-> <<exception>>]

IsRaise(v) == v.type = "raise"

\* val == text, for a Python value val.
IsStr(v, token) == v.type = "str" /\ v.value = <<token>>

\* Texts uuid.UUID accepts, with the 32 hexadecimal digits each stands for:
\* the hyphenated form and the form in braces name the same UUID.
UuidTexts ==
    [t \in {"11111111-1111-1111-1111-111111111111",
            "{11111111-1111-1111-1111-111111111111}",
            "22222222-2222-2222-2222-222222222222"} |->
        IF t = "22222222-2222-2222-2222-222222222222"
        THEN "22222222222222222222222222222222"
        ELSE "11111111111111111111111111111111"]

\* uuid.UUID(hex): a str of hexadecimal digits gives the UUID, another str
\* raises ValueError, a value that is no str has no replace().
UUID(hex) ==
    IF hex.type = "str"
    THEN IF Len(hex.value) = 1 /\ hex.value[1] \in DOMAIN UuidTexts
         THEN PyUUID(UuidTexts[hex.value[1]])
         ELSE Raise("ValueError")
    ELSE IF hex.type = "NoneType" THEN Raise("TypeError")
    ELSE Raise("AttributeError")

\* The first exception among the values of seq, computed left to right.
FirstRaise(seq) ==
    seq[CHOOSE i \in DOMAIN seq : IsRaise(seq[i]) /\ \A j \in 1..(i - 1) : ~IsRaise(seq[j])]

\* The items iterating over a value yields; Raise when it is not iterable.
\* A str yields its pieces of text, a dict its keys.
Iterate(v) ==
    IF v.type = "list" THEN v.value
    ELSE IF v.type = "str" THEN [i \in DOMAIN v.value |-> Str(v.value[i])]
    ELSE Raise("TypeError")

\* The list of the results, or the first exception among them.
ListOrRaise(results) ==
    IF \E i \in DOMAIN results : IsRaise(results[i]) THEN FirstRaise(results)
    ELSE PyList(results)

\* [dec[x] for x in payload], dec the function that decodes a member.
DecodeSet(payload, dec) ==
    IF payload.type \notin {"list", "str"} THEN Raise("TypeError")
    ELSE ListOrRaise([i \in DOMAIN Iterate(payload) |-> dec[Iterate(payload)[i]]])

\* A key a dict can hold: lists and dicts are not hashable.
Hashable(v) == v.type \notin {"list", "dict"}

\* The pair of a decoded key k and a decoded value v, or the exception that
\* decoding the value, decoding the key or hashing the key raised.
PairOrRaise(k, v) ==
    IF IsRaise(v) THEN v
    ELSE IF IsRaise(k) THEN k
    ELSE IF ~Hashable(k) THEN Raise("TypeError")
    ELSE [type |-> "pair", value |-> <<k, v>>]

\* One "x, y" of the dict comprehension: the pair unpacked and decoded, or
\* the exception that unpacking, decoding or hashing the key raises.
DecodePair(item, dec) ==
    IF item.type \notin {"list", "str"} THEN Raise("TypeError")
    ELSE IF Len(Iterate(item)) # 2 THEN Raise("ValueError")
    ELSE PairOrRaise(dec[Iterate(item)[1]], dec[Iterate(item)[2]])

\* The dict of the pairs: a key that comes twice keeps the value that came
\* last.
DictOf(pairs) ==
    PyDict([k \in {pairs[i].value[1] : i \in DOMAIN pairs} |->
              pairs[CHOOSE i \in DOMAIN pairs :
                       /\ pairs[i].value[1] = k
                       /\ \A j \in DOMAIN pairs : pairs[j].value[1] = k => j <= i].value[2]])

\* The dict of the pairs, or the first exception among them.
DictOrRaise(pairs) ==
    IF \E i \in DOMAIN pairs : IsRaise(pairs[i]) THEN FirstRaise(pairs)
    ELSE DictOf(pairs)

\* {dec[x]: dec[y] for x, y in payload}
DecodeMap(payload, dec) ==
    IF payload.type \notin {"list", "str"} THEN Raise("TypeError")
    ELSE DictOrRaise([i \in DOMAIN Iterate(payload) |->
                         DecodePair(Iterate(payload)[i], dec)])

\* The values _val_to_py is applied to inside _val_to_py(v): the members of
\* a set's payload, the keys and the values of a map's.
Members(v) ==
    LET tag == v.value[1]
        items == Iterate(v.value[2])
    IN  IF v.value[2].type \notin {"list", "str"} THEN {}
        ELSE IF IsStr(tag, "set") THEN {items[i] : i \in DOMAIN items}
        ELSE IF IsStr(tag, "map")
        THEN UNION {{Iterate(items[i])[j] : j \in 1..2} :
                      i \in {k \in DOMAIN items : /\ items[k].type \in {"list", "str"}
                                                   /\ Len(Iterate(items[k])) = 2}}
        ELSE {}

\* The three tagged cases of _val_to_py, for a val of two items; dec is the
\* function that decodes a member.
Dispatch(v, dec) ==
    LET tag == v.value[1]
        payload == v.value[2]
    IN  IF IsStr(tag, "uuid") THEN UUID(payload)
        ELSE IF IsStr(tag, "set") THEN DecodeSet(payload, dec)
        ELSE IF IsStr(tag, "map") THEN DecodeMap(payload, dec)
        ELSE v

\* A variant that does not decode the members of sets and maps.
ValToPyShallow(v) ==
    IF v.type = "list" /\ Len(v.value) = 2
    THEN Dispatch(v, [x \in Members(v) |-> x])
    ELSE v

\* A variant that looks at the first two items of a longer sequence too.
RECURSIVE ValToPyAnyLength(_)
ValToPyAnyLength(v) ==
    IF v.type = "list" /\ Len(v.value) >= 2
    THEN Dispatch(v, [x \in Members(v) |-> ValToPyAnyLength(x)])
    ELSE v

\* vsctl._val_to_py. A str is a Sequence too, but the first character of a
\* str of two characters equals no tag: a str is returned as it is.
RECURSIVE ValToPy(_)
ValToPy(v) ==
    IF v.type = "list" /\ Len(v.value) = 2
    THEN Dispatch(v, [x \in Members(v) |-> ValToPy(x)])
    ELSE v

_DB_ENTRIES_WHICH_SHOULD_BE_LIST == {"ports", "interfaces"}

_DB_ENTRIES_WHICH_SHOULD_NOT_BE_LIST ==
    {"tag", "bond_active_slave", "bond_mode", "lacp", "mac_in_use"}

\* vsctl._convert_to_list
ConvertToList(data) == IF data.type = "list" THEN data ELSE PyList(<<data>>)

\* vsctl._convert_to_single
ConvertToSingle(data) ==
    IF data.type = "list" /\ data.value = <<>> THEN PyNone ELSE data

\* A variant that wraps every value of a list field, a list included.
NormalizeWrapping(h, value) ==
    IF h \in _DB_ENTRIES_WHICH_SHOULD_BE_LIST THEN PyList(<<value>>)
    ELSE IF h \in _DB_ENTRIES_WHICH_SHOULD_NOT_BE_LIST THEN ConvertToSingle(value)
    ELSE value

\* vsctl._normalize
Normalize(h, value) ==
    IF h \in _DB_ENTRIES_WHICH_SHOULD_BE_LIST THEN ConvertToList(value)
    ELSE IF h \in _DB_ENTRIES_WHICH_SHOULD_NOT_BE_LIST THEN ConvertToSingle(value)
    ELSE value

\* The headings of the rows ovs-vsctl lists: the seven of the two sets and
\* one of neither.
Headings ==
    _DB_ENTRIES_WHICH_SHOULD_BE_LIST \cup _DB_ENTRIES_WHICH_SHOULD_NOT_BE_LIST \cup {"name"}

\* JSON values: scalars, ...
Atoms == {PyInt(1), Str("a"), Str("11111111-1111-1111-1111-111111111111"), PyNone}

\* ... the members of the lists drawn: scalars, tagged values (one a set of
\* a set), pairs of a
\* key and a value, a pair whose key is a set, and a two-item list whose
\* first item is no tag ...
Elems ==
    {PyInt(1), Str("a"),
     PyList(<<Str("uuid"), Str("22222222-2222-2222-2222-222222222222")>>),
     PyList(<<Str("set"), PyList(<<PyInt(1)>>)>>),
     PyList(<<Str("set"), PyList(<<PyList(<<Str("set"), PyList(<<Str("a")>>)>>)>>)>>),
     PyList(<<Str("a"), PyInt(1)>>),
     PyList(<<PyInt(1), Str("a")>>),
     PyList(<<Str("a"), PyList(<<Str("set"), PyList(<<>>)>>)>>),
     PyList(<<PyList(<<Str("set"), PyList(<<>>)>>), PyInt(1)>>)}

ListsOfElems == {PyList(items) : items \in SeqsOf(Elems, 0, MaxLen)}

\* ... and the lists of two and of three items with a first item that is a
\* tag, another str or a number.
JsonValues ==
    Atoms \cup ListsOfElems
    \cup {PyList(<<Str("uuid"), p>>) :
            p \in Atoms \cup {Str("{11111111-1111-1111-1111-111111111111}"), PyList(<<>>)}}
    \cup {PyList(<<tag, p>>) :
            tag \in {Str("set"), Str("map"), Str("foo"), PyInt(1)},
            p \in ListsOfElems \cup {PyInt(1), PyNone}}
    \cup {PyList(<<tag, PyList(<<PyInt(1)>>), PyInt(1)>>) :
            tag \in {Str("uuid"), Str("set"), Str("map")}}
    \cup {PyList(<<tag>>) : tag \in {Str("uuid"), Str("set"), Str("map")}}

NotDecoded == [type |-> "not run", value |-> <<>>]

\* _val_to_py(val) is called.
DecodeValue ==
    /\ codec_pc = "start"
    /\ decoded' = ValToPy(val)
    /\ codec_pc' = "decoded"
    /\ UNCHANGED <<val, heading, normalized>>
    /\ UNCHANGED notCodecVars

\* _normalize(heading, _val_to_py(val)) of DBResultCommand.set_raw_result,
\* for a heading of the row.
NormalizeValue ==
    /\ codec_pc = "decoded"
    /\ ~IsRaise(decoded)
    /\ \E h \in Headings :
          /\ heading' = h
          /\ normalized' = Normalize(h, decoded)
    /\ codec_pc' = "normalized"
    /\ UNCHANGED <<val, decoded>>
    /\ UNCHANGED notCodecVars

\* _normalize is applied to a value it has returned.
NormalizeAgain ==
    /\ codec_pc = "normalized"
    /\ normalized' = Normalize(heading, normalized)
    /\ codec_pc' = "renormalized"
    /\ UNCHANGED <<val, decoded, heading>>
    /\ UNCHANGED notCodecVars

CodecInit ==
    /\ val \in JsonValues
    /\ decoded = NotDecoded
    /\ heading = None
    /\ normalized = NotDecoded
    /\ codec_pc = "start"

CodecNext == DecodeValue \/ NormalizeValue \/ NormalizeAgain

-----------------------------------------------------------------------------
\* ovs/driver/vsctl: Command, DBResultCommand and Transaction.

\* Command.__init__
NewCommand(cmd) == [cmd |-> cmd, result |-> PyNone, kind |-> "Command"]

\* Command.__init__ of a DBResultCommand.
NewDBResultCommand(cmd) == [cmd |-> cmd, result |-> PyNone, kind |-> "DBResultCommand"]

\* vsctl._ovs_vsctl_cmd
OvsVsctlCmd == "/usr/sbin/ovs-vsctl"

\* str.split(sep) of a non-empty text: the pieces between the separators.
RECURSIVE SplitText(_, _)
SplitText(text, sep) ==
    IF \A i \in DOMAIN text : text[i] # sep THEN <<text>>
    ELSE LET i == CHOOSE k \in DOMAIN text :
                     text[k] = sep /\ \A j \in 1..(k - 1) : text[j] # sep
         IN  <<SubSeq(text, 1, i - 1)>> \o SplitText(SubSeq(text, i + 1, Len(text)), sep)

\* Command.set_raw_result: the value _result gets for an output line.
SetRawResult(data) == IF data = <<>> THEN PyList(<<>>) ELSE PyList(SplitText(data, NL))

\* The reply of "list Bridge": one row under three headings.
TableLine ==
    <<"{\"headings\":[\"name\",\"ports\",\"tag\"],\"data\":[[\"br0\",\"eth0\",[\"set\",[]]]]}">>

\* Output lines a "list" command may be answered with: an empty one, text
\* that is not JSON, JSON that is no table, and a table.
DbLines == {<<>>, <<"a", NL, "b">>, <<"{}">>, TableLine}

\* json.loads(data): the value of the texts that are JSON, ValueError for a
\* text that is not.
JsonLoads(data) ==
    IF data = TableLine
    THEN PyDict([k \in {Str("headings"), Str("data")} |->
            IF k = Str("headings")
            THEN PyList(<<Str("name"), Str("ports"), Str("tag")>>)
            ELSE PyList(<<PyList(<<Str("br0"), Str("eth0"),
                                   PyList(<<Str("set"), PyList(<<>>)>>)>>)>>)])
    ELSE IF data = <<"{}">> THEN PyDict(<<>>)
    ELSE Raise("ValueError")

\* jdata[key]
GetItem(jdata, key) ==
    IF jdata.type # "dict" THEN Raise("TypeError")
    ELSE IF Str(key) \notin DOMAIN jdata.value THEN Raise("KeyError")
    ELSE jdata.value[Str(key)]

\* A variant that pairs every heading with the first cell of the record.
ObjOfFirstCell(headings, cells) ==
    PyDict([h \in {headings.value[pos] : pos \in DOMAIN cells} |->
              Normalize(h.value[1], cells[1])])

\* The obj of one record whose cells decoded to cells: heading ->
\* _normalize(heading, cell), a heading that comes twice keeping its last
\* cell.
ObjOf(headings, cells) ==
    PyDict([h \in {headings.value[pos] : pos \in DOMAIN cells} |->
              Normalize(h.value[1],
                        cells[CHOOSE q \in DOMAIN cells :
                                 /\ headings.value[q] = h
                                 /\ \A r \in DOMAIN cells : headings.value[r] = h => r <= q])])

ObjOrRaise(headings, cells) ==
    IF \E pos \in DOMAIN cells : IsRaise(cells[pos]) THEN FirstRaise(cells)
    ELSE ObjOf(headings, cells)

\* The obj built for one record: _val_to_py(record[pos]) for the position of
\* every heading, or the first exception on the way.
RowObject(headings, record) ==
    ObjOrRaise(headings,
               [pos \in DOMAIN headings.value |->
                   IF pos > Len(record.value) THEN Raise("IndexError")
                   ELSE ValToPy(record.value[pos])])

\* The results list of a table, or the exception jdata['headings'],
\* jdata['data'] or a record raises.
TableResult(headings, rows) ==
    IF IsRaise(headings) THEN headings
    ELSE IF IsRaise(rows) THEN rows
    ELSE ListOrRaise([i \in DOMAIN rows.value |-> RowObject(headings, rows.value[i])])

\* A variant that lets the exception of json.loads leave set_raw_result.
DbResultRaising(data, jdata) ==
    IF IsRaise(jdata) THEN jdata
    ELSE TableResult(GetItem(jdata, "headings"), GetItem(jdata, "data"))

\* set_raw_result once json.loads(data) gave jdata or raised.
DbResult(data, jdata) ==
    IF IsRaise(jdata)
    THEN PyList(<<Str("ERROR: Unable to interpret cmd output"), PyStr(data)>>)
    ELSE TableResult(GetItem(jdata, "headings"), GetItem(jdata, "data"))

\* DBResultCommand.set_raw_result: the value _result gets for an output
\* line, or the exception that leaves it with _result as it was.
DbSetRawResult(data) ==
    IF data = <<>> THEN PyNone ELSE DbResult(data, JsonLoads(data))

\* command.set_raw_result(line), by the class of the command.
SetRawResultOf(command, line) ==
    IF command.kind = "DBResultCommand" THEN DbSetRawResult(line)
    ELSE SetRawResult(line)

\* The lines the external tool may print for a command.
LinesFor(command) == IF command.kind = "DBResultCommand" THEN DbLines ELSE Lines

\* sep.join(lines), every line one token.
RECURSIVE JoinLines(_, _)
JoinLines(lines, sep) ==
    IF lines = <<>> THEN <<>>
    ELSE IF Len(lines) = 1 THEN lines
    ELSE <<lines[1], sep>> \o JoinLines(Tail(lines), sep)

\* The args list commit builds: '--' and the argument vector, per command.
RECURSIVE CommandsArgs(_)
CommandsArgs(cmds) ==
    IF cmds = <<>> THEN <<>>
    ELSE <<"--">> \o cmds[1].cmd \o CommandsArgs(Tail(cmds))

\* A variant that puts the separator between the commands only.
RECURSIVE CommandsArgsSeparatedOnly(_)
CommandsArgsSeparatedOnly(cmds) ==
    IF cmds = <<>> THEN <<>>
    ELSE IF Len(cmds) = 1 THEN cmds[1].cmd
    ELSE cmds[1].cmd \o <<"--">> \o CommandsArgsSeparatedOnly(Tail(cmds))

\* A variant of the exec line built with it.
ExecLineSeparatedOnly(cmds) ==
    <<OvsVsctlCmd, "--oneline", "--format=json">> \o CommandsArgsSeparatedOnly(cmds)

\* exec_line of commit.
ExecLine(cmds) == <<OvsVsctlCmd, "--oneline", "--format=json">> \o CommandsArgs(cmds)

\* The least member of a set of numbers, 0 for the empty set.
FirstOf(S) == IF S = {} THEN 0 ELSE CHOOSE i \in S : \A j \in S : i <= j

\* The line at which "for i, line in enumerate(out):
\* self.commands[i].set_raw_result(line)" raises: the first line that has no
\* command (IndexError) or whose set_raw_result raises; 0 when none does.
LoopStop(cmds, out) ==
    FirstOf({i \in DOMAIN out :
                i > Len(cmds) \/ IsRaise(SetRawResultOf(cmds[i], out[i]))})

\* The exception the loop raises at line stop.
LoopError(cmds, out, stop) ==
    [type |-> IF stop > Len(cmds) THEN "IndexError"
              ELSE SetRawResultOf(cmds[stop], out[stop]).value[1],
     code |-> "none", msg |-> <<>>]

\* The commands after the loop set the results of the lines before stop, of
\* every line when stop is 0.
AttributeUntil(cmds, out, stop) ==
    [i \in DOMAIN cmds |->
        IF i <= Len(out) /\ (stop = 0 \/ i < stop)
        THEN [cmds[i] EXCEPT !.result = SetRawResultOf(cmds[i], out[i])]
        ELSE cmds[i]]

\* The commands after the loop ran as far as it gets.
AttributeResults(cmds, out) == AttributeUntil(cmds, out, LoopStop(cmds, out))

\* [cmd.result for cmd in self.commands]
Results(cmds) == [i \in DOMAIN cmds |-> cmds[i].result]

ExecFailedMessage(err) == <<"Executing commands failed: ">> \o JoinLines(err, "\n")

\* The outcome of the loop that left the commands as attributed and raised at
\* line stop (0: it ended): the exception, or the list of results.
LoopOutcome(cmds, out, attributed, stop) ==
    IF stop # 0
    THEN [commands |-> attributed,
          raised |-> LoopError(cmds, out, stop),
          returned |-> PyNone]
    ELSE [commands |-> attributed,
          raised |-> [type |-> "none", code |-> "none", msg |-> <<>>],
          returned |-> PyList(Results(attributed))]

\* A variant of commit that attributes the lines before it looks at the
\* exit status.
CommitOutcomeAttributesFirst(cmds, rc, out, err) ==
    IF rc # 0
    THEN [commands |-> AttributeResults(cmds, out),
          raised |-> ConfigNetworkError(ERR_BAD_PARAMS, ExecFailedMessage(err)),
          returned |-> PyNone]
    ELSE LoopOutcome(cmds, out, AttributeResults(cmds, out), LoopStop(cmds, out))

\* Transaction.commit after execCmd returned (rc, out, err), for a non-empty
\* transaction: the commands as it leaves them, the exception it raises and
\* the value it returns.
CommitOutcome(cmds, rc, out, err) ==
    IF rc # 0
    THEN [commands |-> cmds,
          raised |-> ConfigNetworkError(ERR_BAD_PARAMS, ExecFailedMessage(err)),
          returned |-> PyNone]
    ELSE LoopOutcome(cmds, out, AttributeResults(cmds, out), LoopStop(cmds, out))

\* What is kept of one commit(): the commands' results before it, the
\* external calls it made with what execCmd returned, and its outcome.
CommitRecord(cmds, calls, rc, out, err, outcome) ==
    [queued |-> cmds, calls |-> calls, rc |-> rc, out |-> out, err |-> err,
     after |-> outcome.commands, raised |-> outcome.raised,
     returned |-> outcome.returned]

NoCommit ==
    [queued |-> <<>>, calls |-> <<>>, rc |-> 0, out |-> <<>>, err |-> <<>>,
     after |-> <<>>, raised |-> [type |-> "not run", code |-> "none", msg |-> <<>>],
     returned |-> PyNone]

\* What execCmd may return as out for the queued commands: for each command
\* one of the lines its kind of command is answered with, for fewer or all of
\* the commands, or one line more than there are commands.
Outputs(cmds) ==
    {out \in SeqsOf(Lines \cup DbLines, 0, Len(cmds) + 1) :
        \A i \in DOMAIN out :
            out[i] \in IF i <= Len(cmds) THEN LinesFor(cmds[i]) ELSE Lines}

\* commit() of an empty transaction: it returns at once.
CommitReturnsAtOnce ==
    /\ commands = <<>>
    /\ last_commit' = CommitRecord(commands, <<>>, 0, <<>>, <<>>,
                         [commands |-> commands,
                          raised |-> [type |-> "none", code |-> "none", msg |-> <<>>],
                          returned |-> PyNone])
    /\ UNCHANGED commands

\* commit() of a non-empty transaction: one execCmd call, which prints any
\* number of output lines and exits with status 0, or with another status and
\* diagnostic text.
CommitRuns ==
    /\ commands # <<>>
    /\ \E rc \in {0, 1}, out \in Outputs(commands), err \in ErrTexts :
          /\ rc = 0 => err = <<>>
          /\ LET outcome == CommitOutcome(commands, rc, out, err)
             IN  /\ commands' = outcome.commands
                 /\ last_commit' = CommitRecord(commands, <<ExecLine(commands)>>,
                                                rc, out, err, outcome)

\* Transaction.add(*commands)
Add ==
    /\ \E new \in SeqsOf(CommandArgs, 1, MaxCommands - Len(commands)) :
          commands' = commands \o [i \in DOMAIN new |-> NewCommand(new[i])]
    /\ UNCHANGED <<last_commit, scope, self, executed, uuids>>
    /\ UNCHANGED notVsctlVars

\* Transaction.commit() of an empty transaction.
CommitEmpty ==
    /\ CommitReturnsAtOnce
    /\ UNCHANGED <<scope, self, executed, uuids>>
    /\ UNCHANGED notVsctlVars

\* Transaction.commit() of a non-empty transaction.
Commit ==
    /\ CommitRuns
    /\ UNCHANGED <<scope, self, executed, uuids>>
    /\ UNCHANGED notVsctlVars

NotExecuted ==
    [before |-> NewCommand(<<>>), calls |-> <<>>, rc |-> 0, out |-> <<>>,
     raised |-> [type |-> "not run", code |-> "none", msg |-> <<>>],
     returned |-> PyNone]

VsctlInit ==
    /\ commands = <<>>
    /\ last_commit = NoCommit
    /\ scope = "none"
    /\ self = NewCommand(<<>>)
    /\ executed = NotExecuted
    /\ uuids = {}

VsctlNext == Add \/ CommitEmpty \/ Commit

-----------------------------------------------------------------------------
\* "with Transaction() as t:" around commands of both classes.

\* Vsctl.add_br(bridge, may_exist=True)
AddBr(bridge) == NewCommand(<<"--may-exist", "add-br", bridge>>)

\* Vsctl.list_db_table(table)
ListDbTable(table) == NewDBResultCommand(<<"list", table>>)

\* Commands the driver builds.
BuiltCommands == {AddBr("br0"), ListDbTable("Bridge")}

\* t.add(...) inside the block.
TransactionAdd ==
    /\ scope = "open"
    /\ \E new \in SeqsOf(BuiltCommands, 1, MaxCommands - Len(commands)) :
          commands' = commands \o new
    /\ UNCHANGED <<last_commit, scope, self, executed, uuids>>
    /\ UNCHANGED notVsctlVars

\* The block is left without an exception: the transaction is committed,
\* once.
TransactionExit ==
    /\ scope = "open"
    /\ scope' = "closed"
    /\ CommitReturnsAtOnce \/ CommitRuns
    /\ UNCHANGED <<self, executed, uuids>>
    /\ UNCHANGED notVsctlVars

DbInit ==
    /\ commands = <<>>
    /\ last_commit = NoCommit
    /\ scope = "open"
    /\ self = NewCommand(<<>>)
    /\ executed = NotExecuted
    /\ uuids = {}

DbNext == TransactionAdd \/ TransactionExit

-----------------------------------------------------------------------------
\* Command.execute

\* The exit of the block of a transaction that holds cmds, left without an
\* exception: commit() is called, once.
ExitOutcome(cmds, rc, out, err) == CommitOutcome(cmds, rc, out, err)

\* A variant that returns the list of results commit() returns.
ExecuteOutcomeOfCommit(command, outcome) ==
    [command |-> outcome.commands[1], raised |-> outcome.raised,
     returned |-> outcome.returned]

\* execute(): the command alone in a transaction that is committed when its
\* block is left; then self.result is returned, unless the commit raised.
ExecuteOutcome(command, outcome) ==
    [command |-> outcome.commands[1], raised |-> outcome.raised,
     returned |-> IF outcome.raised.type = "none" THEN outcome.commands[1].result
                  ELSE PyNone]

Execute ==
    /\ \E rc \in {0, 1}, out \in Outputs(<<self>>), err \in ErrTexts :
          /\ rc = 0 => err = <<>>
          /\ LET o == ExecuteOutcome(self, ExitOutcome(<<self>>, rc, out, err))
             IN  /\ self' = o.command
                 /\ executed' = [before |-> self, calls |-> <<ExecLine(<<self>>)>>,
                                 rc |-> rc, out |-> out, raised |-> o.raised,
                                 returned |-> o.returned]
    /\ UNCHANGED <<commands, last_commit, scope, uuids>>
    /\ UNCHANGED notVsctlVars

ExecuteInit ==
    /\ commands = <<>>
    /\ last_commit = NoCommit
    /\ scope = "none"
    /\ self \in BuiltCommands \cup {NewCommand(<<>>)}
    /\ executed = NotExecuted
    /\ uuids = {}

ExecuteNext == Execute

-----------------------------------------------------------------------------
\* Vsctl.attach_bond_slave and Vsctl.detach_bond_slave

\* The most calls of the two whose commands are added to one transaction.
MaxCalls == 2

\* Values of uuid.uuid4(), as '%s' prints them.
Uuid4Values ==
    {"11111111-1111-4111-8111-111111111111", "22222222-2222-4222-8222-222222222222",
     "33333333-3333-4333-8333-333333333333", "44444444-4444-4444-8444-444444444444"}

\* uuid.uuid4(): a UUID of 122 random bits, taken to be one that no earlier
\* call has returned.
Uuid4(returned) == Uuid4Values \ returned

\* A variant that takes the identifier from the name of the bond.
AttachBondSlaveByName(bond, slave, id) ==
    <<NewCommand(<<"--id=@" \o bond, "create", "Interface", "name=" \o slave>>),
      NewCommand(<<"add", "Port", bond, "interfaces", "@" \o bond>>)>>

\* The two commands attach_bond_slave returns when uuid4() gave id.
AttachBondSlave(bond, slave, id) ==
    <<NewCommand(<<"--id=@" \o id, "create", "Interface", "name=" \o slave>>),
      NewCommand(<<"add", "Port", bond, "interfaces", "@" \o id>>)>>

\* The two commands detach_bond_slave returns when uuid4() gave id.
DetachBondSlave(bond, slave, id) ==
    <<NewCommand(<<"--id=@" \o id, "get", "Interface", slave>>),
      NewCommand(<<"remove", "Port", bond, "interfaces", "@" \o id>>)>>

Slaves == {"eth0", "eth1"}

\* t.add(*attach_bond_slave(bond, slave))
AddAttachBondSlave ==
    /\ Len(commands) < 2 * MaxCalls
    /\ \E bond \in BondNames, slave \in Slaves, id \in Uuid4(uuids) :
          /\ uuids' = uuids \cup {id}
          /\ commands' = commands \o AttachBondSlave(bond, slave, id)
    /\ UNCHANGED <<last_commit, scope, self, executed>>
    /\ UNCHANGED notVsctlVars

\* t.add(*detach_bond_slave(bond, slave))
AddDetachBondSlave ==
    /\ Len(commands) < 2 * MaxCalls
    /\ \E bond \in BondNames, slave \in Slaves, id \in Uuid4(uuids) :
          /\ uuids' = uuids \cup {id}
          /\ commands' = commands \o DetachBondSlave(bond, slave, id)
    /\ UNCHANGED <<last_commit, scope, self, executed>>
    /\ UNCHANGED notVsctlVars

BondSlaveNext == AddAttachBondSlave \/ AddDetachBondSlave

-----------------------------------------------------------------------------
\* ovs/driver/vsctl: DBResultCommand.set_raw_result on the replies that are
\* tables.

\* The largest number of rows of a reply.
MaxRows == 2

\* The headings of the replies: none, one, those of the two sets and one of
\* neither in two orders, and a heading that comes twice.
TableHeadings ==
    {<<>>, <<"name">>, <<"ports", "tag">>, <<"tag", "name", "ports">>, <<"tag", "tag">>}

\* The cells of the rows: a string and the empty set.
TableCells == {Str("a"), PyList(<<Str("set"), PyList(<<>>)>>)}

\* The rows under n headings: with a cell for every heading, and one short.
RowsUnder(n) ==
    {PyList(cells) : cells \in SeqsOf(TableCells, n, n) \cup
                               (IF n > 0 THEN SeqsOf(TableCells, n - 1, n - 1) ELSE {})}

\* The replies {"headings": [...], "data": [[...], ...]}, a heading that
\* comes twice and a row that is short among them.
TableReplies ==
    UNION {{PyDict([k \in {Str("headings"), Str("data")} |->
                      IF k = Str("headings")
                      THEN PyList([i \in DOMAIN hs |-> Str(hs[i])])
                      ELSE PyList(rows)]) :
               rows \in SeqsOf(RowsUnder(Len(hs)), 0, MaxRows)} :
           hs \in TableHeadings}

NoReply == PyNone

\* set_raw_result(data) for a line json.loads accepts.
SetTableResult ==
    /\ db_result = NotDecoded
    /\ db_result' = DbResult(<<"json">>, reply)
    /\ UNCHANGED reply
    /\ UNCHANGED notTableVars

TableInit ==
    /\ reply \in TableReplies
    /\ db_result = NotDecoded

TableNext == SetTableResult

TableIdle ==
    /\ reply = NoReply
    /\ db_result = NotDecoded

-----------------------------------------------------------------------------
\* ovs/driver/vsctl: _ovs_vsctl_cmd, memoized, as Transaction.commit calls it.

\* The number of commit() calls that are followed.
MaxCommits == 4

\* The paths CommandPath is given.
VsctlPaths == {"/usr/sbin/ovs-vsctl", "/usr/bin/ovs-vsctl"}

\* memoized: the value kept if there is one, the value computed otherwise;
\* the cache afterwards and whether the function body ran.
Memoized(cache, computed) ==
    IF cache # None THEN [value |-> cache, cache |-> cache, ran |-> 0]
    ELSE [value |-> computed, cache |-> computed, ran |-> 1]

\* A variant of commit that builds its command line before it looks at
\* self.commands.
CallsVsctlCmdAlways(n) == TRUE

\* Transaction.commit: whether it gets as far as _ovs_vsctl_cmd() with n
\* commands queued.
CallsVsctlCmd(n) == n # 0

\* Transaction(): a new transaction, and add() on it.
LookupAdd ==
    /\ \E n \in 0..MaxCommands : n # queued /\ queued' = n
    /\ UNCHANGED <<installed, cmd_cache, lookups, commit_log>>
    /\ UNCHANGED notLookupVars

\* Transaction.commit(), as far as the path of the tool goes.
LookupCommit ==
    /\ Len(commit_log) < MaxCommits
    /\ LET m == Memoized(cmd_cache, installed)
       IN  IF CallsVsctlCmd(queued)
           THEN /\ cmd_cache' = m.cache
                /\ lookups' = lookups + m.ran
                /\ commit_log' = Append(commit_log, m.value)
           ELSE /\ commit_log' = Append(commit_log, None)
                /\ UNCHANGED <<cmd_cache, lookups>>
    /\ UNCHANGED <<installed, queued>>
    /\ UNCHANGED notLookupVars

\* The tool is installed at the other path while the process runs.
Reinstall ==
    /\ \E path \in VsctlPaths : path # installed /\ installed' = path
    /\ UNCHANGED <<cmd_cache, lookups, commit_log, queued>>
    /\ UNCHANGED notLookupVars

\* The process starts: nothing has called _ovs_vsctl_cmd.
LookupInit ==
    /\ installed \in VsctlPaths
    /\ cmd_cache = None
    /\ lookups = 0
    /\ commit_log = <<>>
    /\ queued = 0

LookupNext == LookupAdd \/ LookupCommit \/ Reinstall

LookupIdle ==
    /\ installed = None
    /\ cmd_cache = None
    /\ lookups = 0
    /\ commit_log = <<>>
    /\ queued = 0

-----------------------------------------------------------------------------
\* storage/misc: DynamicBarrier

\* The number of threads that use one barrier.
MaxThreads == 3

Threads == 1..MaxThreads

\* A variant in which a thread that is woken and finds the barrier free
\* takes the operation that has just ended for its own.
EnterAtTrustingFirstExit(point, b) ==
    IF point = "call"
    THEN IF ~b THEN [pc |-> "inside", busy |-> TRUE] ELSE [pc |-> "wait1", busy |-> b]
    ELSE IF point = "woken1"
    THEN IF ~b THEN [pc |-> "skipped", busy |-> b] ELSE [pc |-> "wait2", busy |-> b]
    ELSE [pc |-> "skipped", busy |-> b]

\* A variant with one wait: a thread that is woken returns False at once.
EnterAtSingleWait(point, b) ==
    IF point = "call" /\ ~b THEN [pc |-> "inside", busy |-> TRUE]
    ELSE IF point = "call" THEN [pc |-> "wait1", busy |-> b]
    ELSE [pc |-> "skipped", busy |-> b]

\* DynamicBarrier.enter from the point where the thread holds the lock of
\* the condition (at the call, and after each of the two waits) up to the
\* point where it gives it up: by returning True ("inside"), by returning
\* False ("skipped"), or by waiting.
EnterAt(point, b) ==
    IF point = "call"
    THEN IF ~b THEN [pc |-> "inside", busy |-> TRUE] ELSE [pc |-> "wait1", busy |-> b]
    ELSE IF point = "woken1"
    THEN IF ~b THEN [pc |-> "inside", busy |-> TRUE] ELSE [pc |-> "wait2", busy |-> b]
    ELSE [pc |-> "skipped", busy |-> b]

\* A variant that wakes one waiting thread only, as self._cond.notify()
\* would.
NotifyOne(pcs) ==
    LET waiting == {th \in DOMAIN pcs : pcs[th] \in {"wait1", "wait2"}}
    IN  [th \in DOMAIN pcs |->
            IF waiting # {} /\ th = CHOOSE x \in waiting : \A y \in waiting : x <= y
            THEN (IF pcs[th] = "wait1" THEN "woken1" ELSE "woken2")
            ELSE pcs[th]]

\* self._cond.notifyAll(): every thread that waits is woken; it goes on when
\* it has the lock again.
NotifyAll(pcs) ==
    [th \in DOMAIN pcs |-> IF pcs[th] = "wait1" THEN "woken1"
                           ELSE IF pcs[th] = "wait2" THEN "woken2"
                           ELSE pcs[th]]

\* DynamicBarrier.exit
ExitOf(b) ==
    IF ~b THEN [busy |-> b, raised |-> "AssertionError", notify |-> FALSE]
    ELSE [busy |-> FALSE, raised |-> None, notify |-> TRUE]

\* The threads that are inside a call of enter().
InEnter(pcs) == {th \in DOMAIN pcs : pcs[th] \in {"wait1", "woken1", "wait2", "woken2"}}

\* What is recorded per thread th: after[th], the thread that is inside now
\* got in after th called enter(); done[th], a thread that got in after th
\* called enter() has called exit() since.
NotServed == [after |-> [th \in Threads |-> FALSE], done |-> [th \in Threads |-> FALSE]]

\* The record when th has gone through enter() up to the position pos.
ServedAt(th, pos) ==
    IF pos = "inside"
    THEN [after |-> [x \in Threads |-> x # th /\ x \in InEnter(tpc)],
          done |-> [served.done EXCEPT ![th] = FALSE]]
    ELSE served

\* The record when the thread that is inside has called exit().
ServedByExit ==
    [after |-> [x \in Threads |-> FALSE],
     done |-> [x \in Threads |-> served.done[x] \/ served.after[x]]]

\* A thread calls enter().
Enter(th) ==
    /\ tpc[th] \in {"idle", "skipped"}
    /\ LET r == EnterAt("call", busy)
       IN  /\ tpc' = [tpc EXCEPT ![th] = r.pc]
           /\ busy' = r.busy
           /\ served' = [ServedAt(th, r.pc) EXCEPT !.done[th] = FALSE, !.after[th] = FALSE]
    /\ UNCHANGED <<exit_raised, lastResult, evaluations, sm_calls>>
    /\ UNCHANGED notBarrierVars

\* A thread that was woken has the lock again and goes on in enter().
Resume(th) ==
    /\ tpc[th] \in {"woken1", "woken2"}
    /\ LET r == EnterAt(tpc[th], busy)
       IN  /\ tpc' = [tpc EXCEPT ![th] = r.pc]
           /\ busy' = r.busy
           /\ served' = ServedAt(th, r.pc)
    /\ UNCHANGED <<exit_raised, lastResult, evaluations, sm_calls>>
    /\ UNCHANGED notBarrierVars

\* The thread that entered calls exit().
Exit(th) ==
    /\ tpc[th] = "inside"
    /\ LET e == ExitOf(busy)
       IN  /\ busy' = e.busy
           /\ tpc' = [(IF e.notify THEN NotifyAll(tpc) ELSE tpc) EXCEPT ![th] = "idle"]
           /\ exit_raised' = [thread |-> th, raised |-> e.raised]
    /\ served' = ServedByExit
    /\ UNCHANGED <<lastResult, evaluations, sm_calls>>
    /\ UNCHANGED notBarrierVars

\* A thread calls exit() while no thread is between enter() and exit().
ExitNotEntered(th) ==
    /\ tpc[th] \in {"idle", "skipped"}
    /\ \A x \in Threads : tpc[x] # "inside"
    /\ LET e == ExitOf(busy)
       IN  /\ busy' = e.busy
           /\ tpc' = IF e.notify THEN NotifyAll(tpc) ELSE tpc
           /\ exit_raised' = [thread |-> th, raised |-> e.raised]
    /\ UNCHANGED <<served, lastResult, evaluations, sm_calls>>
    /\ UNCHANGED notBarrierVars

NoExit == [thread |-> 0, raised |-> None]

\* No call of the sampling method by a thread yet. Of a call: started, the
\* number of evaluations begun when it was made; waited, enter() did not
\* return at once; evaluation, the evaluation the call ran, or the last one
\* that had ended when enter() returned False; value, what it returned.
NoSmCall == [state |-> "none", started |-> 0, waited |-> FALSE, evaluation |-> 0,
             value |-> 0]

\* DynamicBarrier.__init__, with every thread outside.
BarrierInit ==
    /\ busy = FALSE
    /\ tpc = [th \in Threads |-> "idle"]
    /\ served = NotServed
    /\ exit_raised = NoExit
    /\ lastResult = 0
    /\ evaluations = <<>>
    /\ sm_calls = [th \in Threads |-> NoSmCall]

BarrierIdle == BarrierInit

BarrierNext ==
    \E th \in Threads : Enter(th) \/ Resume(th) \/ Exit(th) \/ ExitNotEntered(th)

-----------------------------------------------------------------------------
\* storage/misc: SamplingMethod. The result of the k-th evaluation of the
\* wrapped function is k, and 0 stands for None.

\* The number of evaluations after which no new call is made.
MaxRuns == 2

\* A variant that stores something also when the function raises.
AfterFuncStoring(last, k, raises) == k

\* self.__lastResult = self.__func(*args, **kwargs)
AfterFunc(last, k, raises) == IF raises THEN last ELSE k

\* The position of a thread in __call__ when enter() has got to pos.
SmPc(pos) == IF pos = "skipped" THEN "return" ELSE pos

\* The last evaluation that has ended.
LastEnded == IF busy THEN Len(evaluations) - 1 ELSE Len(evaluations)

\* The record of the call of th when enter() has got to pos.
SmEntered(c, pos) ==
    IF pos = "inside" THEN [c EXCEPT !.evaluation = Len(evaluations) + 1]
    ELSE IF pos = "skipped" THEN [c EXCEPT !.evaluation = LastEnded]
    ELSE c

\* The evaluations when enter() has got to pos.
Begun(pos) == IF pos = "inside" THEN Append(evaluations, "running") ELSE evaluations

\* A thread calls the sampling method: __call__ up to the point where
\* enter() returns or waits.
SmCall(th) ==
    /\ tpc[th] = "idle"
    /\ Len(evaluations) < MaxRuns
    /\ LET r == EnterAt("call", busy)
       IN  /\ tpc' = [tpc EXCEPT ![th] = SmPc(r.pc)]
           /\ busy' = r.busy
           /\ served' = [ServedAt(th, r.pc) EXCEPT !.done[th] = FALSE, !.after[th] = FALSE]
           /\ sm_calls' = [sm_calls EXCEPT ![th] =
                  SmEntered([state |-> "calling", started |-> Len(evaluations),
                             waited |-> r.pc # "inside", evaluation |-> 0,
                             value |-> 0], r.pc)]
           /\ evaluations' = Begun(r.pc)
    /\ UNCHANGED <<exit_raised, lastResult>>
    /\ UNCHANGED notBarrierVars

\* A thread that was woken goes on in enter().
SmResume(th) ==
    /\ tpc[th] \in {"woken1", "woken2"}
    /\ LET r == EnterAt(tpc[th], busy)
       IN  /\ tpc' = [tpc EXCEPT ![th] = SmPc(r.pc)]
           /\ busy' = r.busy
           /\ served' = ServedAt(th, r.pc)
           /\ sm_calls' = [sm_calls EXCEPT ![th] = SmEntered(@, r.pc)]
           /\ evaluations' = Begun(r.pc)
    /\ UNCHANGED <<exit_raised, lastResult>>
    /\ UNCHANGED notBarrierVars

\* The wrapped function returns or raises in the thread that runs it.
EndFunc(th) ==
    /\ tpc[th] = "inside"
    /\ \E raises \in BOOLEAN :
          /\ lastResult' = AfterFunc(lastResult, sm_calls[th].evaluation, raises)
          /\ evaluations' = [evaluations EXCEPT ![sm_calls[th].evaluation] =
                                IF raises THEN "raised" ELSE "returned"]
    /\ tpc' = [tpc EXCEPT ![th] = "finally"]
    /\ UNCHANGED <<busy, served, exit_raised, sm_calls>>
    /\ UNCHANGED notBarrierVars

\* finally: self.__barrier.exit(); an exception of the function goes on to
\* the caller.
SmExit(th) ==
    /\ tpc[th] = "finally"
    /\ LET e == ExitOf(busy)
           propagates == evaluations[sm_calls[th].evaluation] = "raised" \/ e.raised # None
       IN  /\ busy' = e.busy
           /\ tpc' = [(IF e.notify THEN NotifyAll(tpc) ELSE tpc) EXCEPT ![th] =
                         IF propagates THEN "idle" ELSE "return"]
           /\ exit_raised' = [thread |-> th, raised |-> e.raised]
           /\ sm_calls' = [sm_calls EXCEPT ![th].state =
                              IF propagates THEN "raised" ELSE @]
    /\ served' = ServedByExit
    /\ UNCHANGED <<lastResult, evaluations>>
    /\ UNCHANGED notBarrierVars

\* return self.__lastResult
SmReturn(th) ==
    /\ tpc[th] = "return"
    /\ tpc' = [tpc EXCEPT ![th] = "idle"]
    /\ sm_calls' = [sm_calls EXCEPT ![th].state = "returned", ![th].value = lastResult]
    /\ UNCHANGED <<busy, served, exit_raised, lastResult, evaluations>>
    /\ UNCHANGED notBarrierVars

\* SamplingMethod.__init__
SamplingInit == BarrierInit

SamplingNext ==
    \E th \in Threads :
        SmCall(th) \/ SmResume(th) \/ EndFunc(th) \/ SmExit(th) \/ SmReturn(th)

-----------------------------------------------------------------------------
\* storage/misc: itmap

\* The longest iterable, and the largest maxthreads.
MaxItems == 3

UNLIMITED_THREADS == 0 - 1

\* The iterables (their elements are distinct), the elements for which func
\* raises, and the values of maxthreads.
ItmapArgs ==
    {[raising |-> r, iterable |-> [k \in 1..n |-> k], maxthreads |-> m] :
        <<n, r, m>> \in {x \in (0..MaxItems) \X (SUBSET (1..MaxItems)) \X ((0 - 2)..MaxItems) :
                            x[2] \subseteq 1..x[1]}}

\* What wrapper(value) puts into respQueue.
Wrapper(a, value) ==
    IF value \in a.raising THEN [kind |-> "exception", of |-> value]
    ELSE [kind |-> "result", of |-> value]

\* The check of maxthreads before anything else is done.
WrongInput(maxthreads) == maxthreads < 1 /\ maxthreads # UNLIMITED_THREADS

\* A variant of the loop that never waits for a result.
LoopBranchNoLimit(l) == IF l.iterable = <<>> THEN "drain" ELSE "start"

\* What the for loop does next with the locals l: leave the loop, raise,
\* wait for a result, or start the worker of the next element.
LoopBranch(l) ==
    IF l.iterable = <<>> THEN "drain"
    ELSE IF l.maxthreads # UNLIMITED_THREADS /\ l.maxthreads = 0
    THEN IF l.threadsCount < 1 THEN "raise" ELSE "get"
    ELSE "start"

\* t.start(); threadsCount += 1; maxthreads -= 1
Started(l) ==
    [l EXCEPT !.iterable = Tail(@), !.threadsCount = @ + 1, !.maxthreads = @ - 1]

\* maxthreads += 1; threadsCount -= 1
AfterYield(l) == [l EXCEPT !.maxthreads = @ + 1, !.threadsCount = @ - 1]

NoLocals == [maxthreads |-> 0 - 1, threadsCount |-> 0, iterable |-> <<>>, i |-> 0,
             raised |-> None]

\* The caller asks for the first item: the body of the generator begins.
ItmapBegin ==
    /\ itmap_pc = "created"
    /\ IF WrongInput(itmap_args.maxthreads)
       THEN /\ itmap_pc' = "raised"
            /\ itmap_locals' = [NoLocals EXCEPT !.raised = "ValueError"]
       ELSE /\ itmap_pc' = "loop"
            /\ itmap_locals' = [NoLocals EXCEPT !.maxthreads = itmap_args.maxthreads,
                                               !.iterable = itmap_args.iterable]
    /\ UNCHANGED <<itmap_args, workers, respQueue, yielded>>
    /\ UNCHANGED notItmapVars

\* One pass of the for loop up to the point where it starts a worker, waits
\* in respQueue.get() or raises; after the loop, for i in xrange(threadsCount).
ItmapLoop ==
    /\ itmap_pc = "loop"
    /\ LET b == LoopBranch(itmap_locals)
       IN  /\ itmap_pc' = IF b = "drain"
                          THEN (IF itmap_locals.threadsCount > 0 THEN "drain_get" ELSE "done")
                          ELSE IF b = "raise" THEN "raised"
                          ELSE IF b = "get" THEN "get"
                          ELSE "loop"
           /\ itmap_locals' = IF b = "drain" THEN [itmap_locals EXCEPT !.i = itmap_locals.threadsCount]
                              ELSE IF b = "raise"
                              THEN [itmap_locals EXCEPT !.raised = "RuntimeError"]
                              ELSE IF b = "get" THEN itmap_locals
                              ELSE Started(itmap_locals)
           /\ workers' = IF b = "start" THEN workers \cup {Head(itmap_locals.iterable)}
                         ELSE workers
    /\ UNCHANGED <<itmap_args, respQueue, yielded>>
    /\ UNCHANGED notItmapVars

\* yield respQueue.get(): the generator takes the first result of the queue
\* and hands it to the caller.
ItmapYield ==
    /\ itmap_pc \in {"get", "drain_get"}
    /\ respQueue # <<>>
    /\ yielded' = Append(yielded, Head(respQueue))
    /\ respQueue' = Tail(respQueue)
    /\ itmap_pc' = IF itmap_pc = "get" THEN "yielded" ELSE "drain_yielded"
    /\ UNCHANGED <<itmap_args, itmap_locals, workers>>
    /\ UNCHANGED notItmapVars

\* The caller asks for the next item: the generator goes on after its yield.
ItmapResume ==
    /\ itmap_pc \in {"yielded", "drain_yielded"}
    /\ IF itmap_pc = "yielded"
       THEN /\ itmap_locals' = Started(AfterYield(itmap_locals))
            /\ workers' = workers \cup {Head(itmap_locals.iterable)}
            /\ itmap_pc' = "loop"
       ELSE /\ itmap_locals' = [itmap_locals EXCEPT !.i = @ - 1]
            /\ workers' = workers
            /\ itmap_pc' = IF itmap_locals.i > 1 THEN "drain_get" ELSE "done"
    /\ UNCHANGED <<itmap_args, respQueue, yielded>>
    /\ UNCHANGED notItmapVars

\* A worker thread ends: wrapper has put the result, or the exception, of
\* its element into respQueue.
WorkerEnd ==
    /\ \E w \in workers :
          /\ respQueue' = Append(respQueue, Wrapper(itmap_args, w))
          /\ workers' = workers \ {w}
    /\ UNCHANGED <<itmap_args, itmap_locals, yielded, itmap_pc>>
    /\ UNCHANGED notItmapVars

\* itmap(func, iterable, maxthreads) was called: nothing of its body has run.
ItmapInit ==
    /\ itmap_args \in ItmapArgs
    /\ itmap_locals = NoLocals
    /\ workers = {}
    /\ respQueue = <<>>
    /\ yielded = <<>>
    /\ itmap_pc = "created"

ItmapNext == ItmapBegin \/ ItmapLoop \/ ItmapYield \/ ItmapResume \/ WorkerEnd

ItmapIdle ==
    /\ itmap_args = [raising |-> {}, iterable |-> <<>>, maxthreads |-> 0 - 1]
    /\ itmap_locals = NoLocals
    /\ workers = {}
    /\ respQueue = <<>>
    /\ yielded = <<>>
    /\ itmap_pc = "idle"

-----------------------------------------------------------------------------
\* virt/utils: DynamicBoundedSemaphore, as tests/vmUtilsTests.py uses it

\* The largest bound given to a semaphore that is used outside the tests.
MaxBound == 3

INITIAL_BOUND == 5

INCREASED_BOUND == 10

\* DynamicBoundedSemaphore(value): nothing is held.
SemNew(value) == [bound |-> value, held |-> 0]

\* acquire(blocking=False): the semaphore afterwards, and what is returned.
SemAcquire(s) ==
    IF s.held < s.bound THEN [sem |-> [s EXCEPT !.held = @ + 1], success |-> TRUE]
    ELSE [sem |-> s, success |-> FALSE]

\* release()
SemRelease(s) == [s EXCEPT !.held = @ - 1]

\* sem.bound = value
SemSetBound(s, value) == [s EXCEPT !.bound = value]

\* What is recorded of the last operation: the semaphore before it, what an
\* acquire returned, how many were held when the bound was last assigned
\* (k), and the acquisitions less the releases since then (granted).
NoSemOp == [op |-> "none", success |-> TRUE, before |-> SemNew(0), k |-> 0, granted |-> 0]

Acquired(s, last) ==
    [op |-> "acquire", success |-> SemAcquire(s).success, before |-> s, k |-> last.k,
     granted |-> IF SemAcquire(s).success THEN last.granted + 1 ELSE last.granted]

Released(s, last) ==
    [op |-> "release", success |-> TRUE, before |-> s, k |-> last.k,
     granted |-> last.granted - 1]

BoundSet(s, last) ==
    [op |-> "bound", success |-> TRUE, before |-> s, k |-> s.held, granted |-> 0]

Times(step, times) == [n \in 1..times |-> step]

\* A variant that tries one acquisition more than it is asked for.
AssertAcquirableOnceMore(times) == Times([do |-> "assertAcquirable", value |-> 0], times + 1)

\* assertAcquirable(times): each acquire has to succeed.
AssertAcquirable(times) == Times([do |-> "assertAcquirable", value |-> 0], times)

\* assertNotAcquirable(): the acquire has to fail.
AssertNotAcquirable == <<[do |-> "assertNotAcquirable", value |-> 0]>>

SetBound(value) == <<[do |-> "bound", value |-> value]>>

Release == <<[do |-> "release", value |-> 0]>>

TestNames ==
    {"test_basic_operations", "test_bound_increase", "test_bound_decrease",
     "test_bound_increase_while_acquired", "test_bound_decrease_while_acquired",
     "test_bound_decrease_below_capacity_while_acquired"}

\* The statements of the test methods of DynamicSemaphoreTests.
TestSteps(name) ==
    CASE name = "test_basic_operations" ->
            AssertAcquirable(INITIAL_BOUND) \o Release \o AssertAcquirable(1)
      [] name = "test_bound_increase" ->
            SetBound(INCREASED_BOUND) \o AssertAcquirable(INCREASED_BOUND)
                \o AssertNotAcquirable
      [] name = "test_bound_decrease" ->
            SetBound(0) \o AssertNotAcquirable
      [] name = "test_bound_increase_while_acquired" ->
            AssertAcquirable(INITIAL_BOUND) \o SetBound(INCREASED_BOUND)
                \o AssertAcquirable(INCREASED_BOUND - INITIAL_BOUND)
                \o AssertNotAcquirable
      [] name = "test_bound_decrease_while_acquired" ->
            AssertAcquirable(3) \o SetBound(4) \o AssertAcquirable(1)
                \o AssertNotAcquirable
      [] name = "test_bound_decrease_below_capacity_while_acquired" ->
            AssertAcquirable(3) \o SetBound(1) \o AssertNotAcquirable
      [] OTHER -> <<>>

\* Whether the statement st of a test fails on the semaphore s.
StepFails(st, s) ==
    \/ st.do = "assertAcquirable" /\ ~SemAcquire(s).success
    \/ st.do = "assertNotAcquirable" /\ SemAcquire(s).success

\* The semaphore after the statement st of a test.
StepSem(st, s) ==
    IF st.do = "bound" THEN SemSetBound(s, st.value)
    ELSE IF st.do = "release" THEN SemRelease(s)
    ELSE SemAcquire(s).sem

StepRecord(st, s, last) ==
    IF st.do = "bound" THEN BoundSet(s, last)
    ELSE IF st.do = "release" THEN Released(s, last)
    ELSE Acquired(s, last)

\* The next statement of the test method that is running.
TestStep ==
    /\ test.name \in TestNames
    /\ ~test.failed
    /\ test.step < Len(TestSteps(test.name))
    /\ LET st == TestSteps(test.name)[test.step + 1]
       IN  /\ sem' = StepSem(st, sem)
           /\ sem_last' = StepRecord(st, sem, sem_last)
           /\ test' = [test EXCEPT !.step = @ + 1, !.failed = StepFails(st, sem)]
    /\ UNCHANGED notSemVars

\* Outside the tests: sem.acquire(blocking=False)
Acquire ==
    /\ test.name = "none"
    /\ sem' = SemAcquire(sem).sem
    /\ sem_last' = Acquired(sem, sem_last)
    /\ UNCHANGED test
    /\ UNCHANGED notSemVars

\* Outside the tests: sem.release() by a holder
ReleaseHeld ==
    /\ test.name = "none"
    /\ sem.held > 0
    /\ sem' = SemRelease(sem)
    /\ sem_last' = Released(sem, sem_last)
    /\ UNCHANGED test
    /\ UNCHANGED notSemVars

\* Outside the tests: sem.bound = value
AssignBound ==
    /\ test.name = "none"
    /\ \E value \in 0..MaxBound :
          /\ value # sem.bound
          /\ sem' = SemSetBound(sem, value)
    /\ sem_last' = BoundSet(sem, sem_last)
    /\ UNCHANGED test
    /\ UNCHANGED notSemVars

\* setUp of a test method, or a semaphore made outside the tests.
SemInit ==
    /\ test \in [name : TestNames \cup {"none"}, step : {0}, failed : {FALSE}]
    /\ sem \in {SemNew(value) : value \in 0..INITIAL_BOUND}
    /\ test.name \in TestNames => sem = SemNew(INITIAL_BOUND)
    /\ test.name = "none" => sem.bound <= MaxBound
    /\ sem_last = NoSemOp

SemNext == TestStep \/ Acquire \/ ReleaseHeld \/ AssignBound

SemIdle ==
    /\ sem = SemNew(0)
    /\ sem_last = NoSemOp
    /\ test = [name |-> "idle", step |-> 0, failed |-> FALSE]

-----------------------------------------------------------------------------
\* Specifications. In each, the variables of the other parts stay as they
\* are when that part is not running.

RouterIdle ==
    /\ networks = EmptyDict
    /\ bondings = EmptyDict
    /\ running = [networks |-> EmptyDict, bondings |-> EmptyDict]
    /\ phase = "idle"
    /\ validated = NotRun
    /\ dispatched = NotRun

OvsIdle ==
    /\ ovs_nets = EmptyDict
    /\ ovs_bonds = EmptyDict
    /\ ovs_netinfo = [networks |-> {}, bondings |-> {}]
    /\ pc = "idle"
    /\ actions = [nets2add |-> EmptyDict, nets2edit |-> EmptyDict,
                  nets2remove |-> EmptyDict, bonds2add |-> EmptyDict,
                  bonds2edit |-> EmptyDict, bonds2remove |-> EmptyDict]
    /\ trace = <<>>
    /\ raised_at = None
    /\ effects = NoEffects

VsctlIdle == VsctlInit

CodecIdle ==
    /\ val = PyNone
    /\ decoded = NotDecoded
    /\ heading = None
    /\ normalized = NotDecoded
    /\ codec_pc = "idle"

NetinfoIdle ==
    /\ host = [legacy |-> [networks |-> EmptyDict, bondings |-> EmptyDict,
                           nics |-> EmptyDict],
               service_running |-> FALSE,
               ovs |-> [networks |-> EmptyDict, bondings |-> EmptyDict],
               running_networks |-> EmptyDict]
    /\ netinfo_call = NotCalled

\* ---------------------------------------------------------------------
\* misc.Event
\* ---------------------------------------------------------------------

MaxEmits == 2

\* The functions that are registered as handlers.
Funcs == {"f", "g"}

\* A variant that starts the thread whatever the registrar holds.
StartsThreadAlways(n) == TRUE

\* emit(): the thread that runs _emit is started when len(self._registrar)
\* is positive; the test is made without the lock.
StartsThread(n) == n > 0

\* A variant that drops only the entries whose function is gone.
DroppedOnlyDead(func_alive, oneshot) == ~func_alive

\* _emit: 'if func is None or oneshot: del self._registrar[funcId]'.
Dropped(func_alive, oneshot) == ~func_alive \/ oneshot

\* _emit: 'if func is None: continue', else the function is invoked.
Called(func_alive) == func_alive

\* How _emit invokes a function: by a call when the event is synchronous,
\* by starting a thread for it otherwise.
How == IF event_sync THEN "called" ELSE "thread"

NotRegistered == [alive |-> TRUE, mode |-> "never", since |-> <<>>]

\* Event.register: under the lock, the entry of func is set or replaced.
Register(func, oneshot) ==
    /\ funcs[func].alive
    /\ registrar' = Update(registrar, [k \in {func} |-> oneshot])
    /\ funcs' = [funcs EXCEPT ![func].mode = IF oneshot THEN "oneshot" ELSE "kept",
                              ![func].since = <<>>]
    /\ UNCHANGED <<event_sync, emissions, invocations, unregister_raised>>
    /\ UNCHANGED notEventVars

\* Event.unregister: under the lock, the entry of func is deleted; KeyError
\* when there is none.
Unregister(func) ==
    /\ funcs[func].alive
    /\ IF func \in DOMAIN registrar
       THEN /\ registrar' = Restrict(registrar, DOMAIN registrar \ {func})
            /\ funcs' = [funcs EXCEPT ![func].mode = "never", ![func].since = <<>>]
            /\ unregister_raised' = None
       ELSE /\ unregister_raised' = "KeyError"
            /\ UNCHANGED <<registrar, funcs>>
    /\ UNCHANGED <<event_sync, emissions, invocations>>
    /\ UNCHANGED notEventVars

\* The last reference to func goes away: the weak reference of its entry,
\* if it has one, is dead from now on.
Collect(func) ==
    /\ funcs[func].alive
    /\ funcs' = [funcs EXCEPT ![func].alive = FALSE]
    /\ UNCHANGED <<event_sync, registrar, emissions, invocations, unregister_raised>>
    /\ UNCHANGED notEventVars

\* Event.emit: it returns at once; the thread it may have started runs
\* _emit later.
Emit ==
    /\ Len(emissions) < MaxEmits
    /\ LET seen == Cardinality(DOMAIN registrar)
       IN  emissions' = Append(emissions,
                               [seen |-> seen,
                                state |-> IF StartsThread(seen) THEN "started"
                                          ELSE "no_thread"])
    /\ UNCHANGED <<event_sync, registrar, funcs, invocations, unregister_raised>>
    /\ UNCHANGED notEventVars

\* Event._emit in the thread of emission e: the whole loop runs under the
\* lock, over the items the registrar had when the loop began.
RunEmit(e) ==
    /\ e \in DOMAIN emissions
    /\ emissions[e].state = "started"
    /\ LET items == registrar
           called == {func \in DOMAIN items : Called(funcs[func].alive)}
       IN  /\ registrar' = Restrict(registrar,
                                {func \in DOMAIN items :
                                    ~Dropped(funcs[func].alive, items[func])})
           /\ invocations' = invocations (+) SetToBag({<<func, e, How>> : func \in called})
           /\ funcs' = [func \in Funcs |->
                           IF func \in called
                           THEN [funcs[func] EXCEPT !.since = Append(@, e)]
                           ELSE funcs[func]]
    /\ emissions' = [emissions EXCEPT ![e].state = "ran"]
    /\ UNCHANGED <<event_sync, unregister_raised>>
    /\ UNCHANGED notEventVars

\* Event.__init__
EventInit ==
    /\ event_sync \in BOOLEAN
    /\ registrar = EmptyDict
    /\ funcs = [func \in Funcs |-> NotRegistered]
    /\ emissions = <<>>
    /\ invocations = EmptyBag
    /\ unregister_raised = None

EventIdle ==
    /\ event_sync = FALSE
    /\ registrar = EmptyDict
    /\ funcs = [func \in Funcs |-> NotRegistered]
    /\ emissions = <<>>
    /\ invocations = EmptyBag
    /\ unregister_raised = None

EventNext ==
    \/ \E func \in Funcs, oneshot \in BOOLEAN : Register(func, oneshot)
    \/ \E func \in Funcs : Unregister(func)
    \/ \E func \in Funcs : Collect(func)
    \/ Emit
    \/ \E e \in 1..MaxEmits : RunEmit(e)

InitRouter == RouterInit /\ OvsIdle /\ VsctlIdle /\ CodecIdle /\ NetinfoIdle
    /\ BarrierIdle /\ ItmapIdle /\ SemIdle /\ TableIdle /\ LookupIdle /\ RaceIdle /\ EventIdle

SpecRouter == InitRouter /\ [][RouterNext]_vars

SpecRouterRace == InitRouter /\ [][RouterRaceNext]_vars

InitOvs == OvsInit /\ RouterIdle /\ VsctlIdle /\ CodecIdle /\ NetinfoIdle
    /\ BarrierIdle /\ ItmapIdle /\ SemIdle /\ TableIdle /\ LookupIdle /\ RaceIdle /\ EventIdle

SpecOvs == InitOvs /\ [][OvsNext]_vars

InitVsctl == VsctlInit /\ RouterIdle /\ OvsIdle /\ CodecIdle /\ NetinfoIdle
    /\ BarrierIdle /\ ItmapIdle /\ SemIdle /\ TableIdle /\ LookupIdle /\ RaceIdle /\ EventIdle

SpecVsctl == InitVsctl /\ [][VsctlNext]_vars

InitDb == DbInit /\ RouterIdle /\ OvsIdle /\ CodecIdle /\ NetinfoIdle
    /\ BarrierIdle /\ ItmapIdle /\ SemIdle /\ TableIdle /\ LookupIdle /\ RaceIdle /\ EventIdle

SpecDb == InitDb /\ [][DbNext]_vars

InitExecute == ExecuteInit /\ RouterIdle /\ OvsIdle /\ CodecIdle /\ NetinfoIdle
    /\ BarrierIdle /\ ItmapIdle /\ SemIdle /\ TableIdle /\ LookupIdle /\ RaceIdle /\ EventIdle

SpecExecute == InitExecute /\ [][ExecuteNext]_vars

InitBondSlave == VsctlInit /\ RouterIdle /\ OvsIdle /\ CodecIdle /\ NetinfoIdle
    /\ BarrierIdle /\ ItmapIdle /\ SemIdle /\ TableIdle /\ LookupIdle /\ RaceIdle /\ EventIdle

SpecBondSlave == InitBondSlave /\ [][BondSlaveNext]_vars

InitCodec == CodecInit /\ RouterIdle /\ OvsIdle /\ VsctlIdle /\ NetinfoIdle
    /\ BarrierIdle /\ ItmapIdle /\ SemIdle /\ TableIdle /\ LookupIdle /\ RaceIdle /\ EventIdle

SpecCodec == InitCodec /\ [][CodecNext]_vars

InitNetinfo == NetinfoInit /\ RouterIdle /\ OvsIdle /\ VsctlIdle /\ CodecIdle
    /\ BarrierIdle /\ ItmapIdle /\ SemIdle /\ TableIdle /\ LookupIdle /\ RaceIdle /\ EventIdle

SpecNetinfo == InitNetinfo /\ [][NetinfoNext]_vars

InitBarrier == BarrierInit /\ RouterIdle /\ OvsIdle /\ VsctlIdle /\ CodecIdle
    /\ NetinfoIdle /\ ItmapIdle /\ SemIdle /\ TableIdle /\ LookupIdle /\ RaceIdle /\ EventIdle

SpecBarrier == InitBarrier /\ [][BarrierNext]_vars

\* Scheduling: a thread that was woken gets the lock of the condition again
\* (Resume), and a thread whose enter() returned True calls exit() (Exit).
\* Nothing forces a thread to call enter().
BarrierFairness ==
    \A th \in Threads : WF_vars(Resume(th)) /\ WF_vars(Exit(th))

SpecBarrierFair == InitBarrier /\ [][BarrierNext]_vars /\ BarrierFairness

InitEvent == EventInit /\ RouterIdle /\ OvsIdle /\ VsctlIdle /\ CodecIdle
    /\ NetinfoIdle /\ BarrierIdle /\ ItmapIdle /\ SemIdle /\ TableIdle /\ LookupIdle
    /\ RaceIdle

SpecEvent == InitEvent /\ [][EventNext]_vars

InitSampling == SamplingInit /\ RouterIdle /\ OvsIdle /\ VsctlIdle /\ CodecIdle
    /\ NetinfoIdle /\ ItmapIdle /\ SemIdle /\ TableIdle /\ LookupIdle /\ RaceIdle /\ EventIdle

SpecSampling == InitSampling /\ [][SamplingNext]_vars

InitItmap == ItmapInit /\ RouterIdle /\ OvsIdle /\ VsctlIdle /\ CodecIdle
    /\ NetinfoIdle /\ BarrierIdle /\ SemIdle /\ TableIdle /\ LookupIdle /\ RaceIdle /\ EventIdle

SpecItmap == InitItmap /\ [][ItmapNext]_vars

InitSemaphore == SemInit /\ RouterIdle /\ OvsIdle /\ VsctlIdle /\ CodecIdle
    /\ NetinfoIdle /\ BarrierIdle /\ ItmapIdle /\ TableIdle /\ LookupIdle /\ RaceIdle /\ EventIdle

SpecSemaphore == InitSemaphore /\ [][SemNext]_vars

InitTable == TableInit /\ RouterIdle /\ OvsIdle /\ VsctlIdle /\ CodecIdle
    /\ NetinfoIdle /\ BarrierIdle /\ ItmapIdle /\ SemIdle /\ LookupIdle /\ RaceIdle /\ EventIdle

SpecTable == InitTable /\ [][TableNext]_vars

InitLookup == LookupInit /\ RouterIdle /\ OvsIdle /\ VsctlIdle /\ CodecIdle
    /\ NetinfoIdle /\ BarrierIdle /\ ItmapIdle /\ SemIdle /\ TableIdle /\ RaceIdle /\ EventIdle

SpecLookup == InitLookup /\ [][LookupNext]_vars

-----------------------------------------------------------------------------
\* Properties of validate and setup (SpecRouter).

Split == SplitSwitchType(networks, bondings, running)

\* C1: whenever the bucketing of a request completes and leaves an entry in
\* the legacy bucket and an entry in the OVS bucket, validate raises a
\* ConfigNetworkError with ERR_BAD_PARAMS and calls neither backend's
\* validation.
C1_MixedRequestRejected ==
    (/\ phase \in {"validated", "done"}
     /\ Split.errors = {}
     /\ DOMAIN Split.legacy_nets \cup DOMAIN Split.legacy_bonds # {}
     /\ DOMAIN Split.ovs_nets \cup DOMAIN Split.ovs_bonds # {})
    => /\ validated.error.type = "ConfigNetworkError"
       /\ validated.error.code = ERR_BAD_PARAMS
       /\ validated.call = NoCall
       /\ validated.backend = "none"

\* A legacy network together with an OVS bond was validated and rejected.
C1_Witness ==
    /\ phase = "validated"
    /\ networks = [n \in {"net0"} |-> [switch |-> "legacy"]]
    /\ bondings = [b \in {"bond0"} |-> [switch |-> "ovs"]]
    /\ validated.error.code = ERR_BAD_PARAMS

\* The validate and setup outcomes of a request that goes to backend t as a
\* whole: validate's own code raises nothing and hands the request to t's
\* validation, setup raises nothing, does not call the other backend, and
\* calls t with every entry.
RoutedTo(t) ==
    /\ phase \in {"validated", "done"} =>
          /\ validated.error = NoError
          /\ validated.call.switch \in {t, None}
          /\ DOMAIN networks \cup DOMAIN bondings # {} =>
                validated.call = [switch |-> t, nets |-> networks, bonds |-> bondings]
    /\ phase = "done" =>
          /\ dispatched.error = NoError
          /\ dispatched.call.switch \in {t, None}
          /\ DOMAIN networks \cup DOMAIN bondings # {} =>
                dispatched.call = [switch |-> t, nets |-> networks, bonds |-> bondings]

\* The backend an entry belongs to: its 'switch' attribute, or for a
\* remove-flagged entry the switch the running configuration records for its
\* name, legacy when it records none.
BackendOf(name, attrs, running_entries) ==
    IF "remove" \in DOMAIN attrs
    THEN IF name \in DOMAIN running_entries /\ "switch" \in DOMAIN running_entries[name]
         THEN running_entries[name]["switch"]
         ELSE "legacy"
    ELSE IF "switch" \in DOMAIN attrs THEN attrs["switch"] ELSE "missing"

\* C4 as stated: when every entry of the request carries the same backend
\* tag in its 'switch' attribute, validate does not fail and setup routes
\* the whole request to that backend.
C4_SharedTagRoutes ==
    \A t \in {"legacy", "ovs"} :
        (/\ \A n \in DOMAIN networks : Get(networks[n], "switch") = t
         /\ \A b \in DOMAIN bondings : Get(bondings[b], "switch") = t)
        => RoutedTo(t)

\* C4, amended: when every entry of the request belongs to the same backend
\* (BackendOf), validate's own code raises nothing and setup routes the
\* whole request to that backend.
C4_SharedBackendRoutes ==
    \A t \in {"legacy", "ovs"} :
        (/\ \A n \in DOMAIN networks : BackendOf(n, networks[n], running.networks) = t
         /\ \A b \in DOMAIN bondings : BackendOf(b, bondings[b], running.bondings) = t)
        => RoutedTo(t)

\* A removal and an addition that both belong to OVS were set up by OVS.
C4_Witness ==
    /\ phase = "done"
    /\ \E n \in DOMAIN networks : "remove" \in DOMAIN networks[n]
    /\ \E b \in DOMAIN bondings : "remove" \notin DOMAIN bondings[b]
    /\ \A n \in DOMAIN networks : BackendOf(n, networks[n], running.networks) = "ovs"
    /\ \A b \in DOMAIN bondings : BackendOf(b, bondings[b], running.bondings) = "ovs"
    /\ dispatched.call.switch = "ovs"
    /\ validated.call.switch = "ovs"

\* The switch type the running configuration records for a name: "absent"
\* when it has no entry for the name or the entry has no 'switch' key.
Recorded(name, running_entries) ==
    IF name \in DOMAIN running_entries /\ "switch" \in DOMAIN running_entries[name]
    THEN running_entries[name]["switch"]
    ELSE "absent"

\* The bucketing of the remove-flagged entries of one kind: the bucket of
\* each is the one the running configuration records for its name, whatever
\* its own 'switch' attribute says, and the legacy bucket, never the OVS
\* bucket, when the running configuration records none.
RemovedFollowRunning(entries, running_entries, legacy_entries, ovs_entries) ==
    \A n \in DOMAIN entries :
        "remove" \in DOMAIN entries[n] =>
            /\ Recorded(n, running_entries) \in {"absent", "legacy"} =>
                  /\ n \in DOMAIN legacy_entries /\ legacy_entries[n] = entries[n]
                  /\ n \notin DOMAIN ovs_entries
            /\ Recorded(n, running_entries) = "ovs" =>
                  /\ n \in DOMAIN ovs_entries /\ ovs_entries[n] = entries[n]
                  /\ n \notin DOMAIN legacy_entries

\* The entries a backend call was made with hold the remove-flagged entries
\* the running configuration records no switch type for only when the call
\* went to the legacy backend.
OrphansGoToLegacy(call) ==
    /\ \A n \in DOMAIN call.nets :
          ("remove" \in DOMAIN call.nets[n] /\ Recorded(n, running.networks) = "absent")
              => call.switch = "legacy"
    /\ \A b \in DOMAIN call.bonds :
          ("remove" \in DOMAIN call.bonds[b] /\ Recorded(b, running.bondings) = "absent")
              => call.switch = "legacy"

\* C11: once validate has run, every remove-flagged network and bonding is
\* in the bucket of the switch type the running configuration records for its
\* name and not in the one its request attributes name; when the running
\* configuration has no entry for the name, or the entry records no switch
\* type, it is in the legacy bucket and not in the OVS bucket, and a backend
\* call that carries it is a call of the legacy backend.
C11_RemovedResolvedFromRunning ==
    phase \in {"validated", "done"} =>
        /\ RemovedFollowRunning(networks, running.networks,
                                Split.legacy_nets, Split.ovs_nets)
        /\ RemovedFollowRunning(bondings, running.bondings,
                                Split.legacy_bonds, Split.ovs_bonds)
        /\ OrphansGoToLegacy(validated.call)
        /\ OrphansGoToLegacy(dispatched.call)

\* A removal that names OVS in the request, of a network the running
\* configuration records no switch type for, was set up by the legacy
\* backend.
C11_Witness ==
    /\ phase = "done"
    /\ networks = [n \in {"net0"} |-> [remove |-> TRUE, switch |-> "ovs"]]
    /\ running.networks = [n \in {"net0"} |-> [bridged |-> TRUE]]
    /\ dispatched.call = [switch |-> "legacy", nets |-> networks, bonds |-> bondings]

\* The backend an entry resolves to is neither 'legacy' nor 'ovs'.
UnknownBackend(name, attrs, running_entries) ==
    IF "remove" \in DOMAIN attrs
    THEN Recorded(name, running_entries) \notin {"absent", "legacy", "ovs"}
    ELSE "switch" \in DOMAIN attrs /\ attrs["switch"] \notin {"legacy", "ovs"}

\* Every entry that is not remove-flagged carries a 'switch' attribute.
SwitchGiven ==
    /\ \A n \in DOMAIN networks :
          "remove" \notin DOMAIN networks[n] => "switch" \in DOMAIN networks[n]
    /\ \A b \in DOMAIN bondings :
          "remove" \notin DOMAIN bondings[b] => "switch" \in DOMAIN bondings[b]

\* C12 as stated: when the backend some entry of a request resolves to is
\* neither 'legacy' nor 'ovs', validate fails with a ConfigNetworkError
\* carrying ERR_BAD_PARAMS, for an added entry with an unknown 'switch' and
\* for a remove-flagged entry whose running-config record carries an unknown
\* switch value, with or without a 'switch' key in its request attributes.
C12_UnknownBackendRejected ==
    (/\ phase \in {"validated", "done"}
     /\ SwitchGiven
     /\ \/ \E n \in DOMAIN networks : UnknownBackend(n, networks[n], running.networks)
        \/ \E b \in DOMAIN bondings : UnknownBackend(b, bondings[b], running.bondings))
    => /\ validated.error.type = "ConfigNetworkError"
       /\ validated.error.code = ERR_BAD_PARAMS

-----------------------------------------------------------------------------
\* Properties of _setup_ovs (SpecOvs).

\* The operations issued on the setup handle so far, in order.
IssuedOps == [i \in DOMAIN effects.issued |-> effects.issued[i][1]]

ScopeOps == <<"remove_nets", "remove_bonds", "edit_bonds", "add_bonds", "add_nets">>

ScopeSteps == {"remove_nets", "remove_bonds", "edit_bonds", "add_bonds", "add_nets",
               "scope_exit"}

InTrace(step) == \E i \in DOMAIN trace : trace[i] = step

\* C2: a running-config entry point has been called only if the five scope
\* operations and the scope's exit were all attempted before the update and
\* none of them raised; when one of them raised, no running-config call was
\* made.
C2_ConfigOnlyAfterScope ==
    /\ \A i \in DOMAIN trace :
          trace[i] = "update_running_config" =>
             /\ \A s \in ScopeSteps : \E j \in 1..(i - 1) : trace[j] = s
             /\ raised_at \notin ScopeSteps
    /\ BagToSet(effects.config_calls) # {} => InTrace("update_running_config")
    /\ raised_at \in ScopeSteps => BagToSet(effects.config_calls) = {}

\* The scope was left and a set call and a remove call were made.
C2_Witness ==
    /\ pc = "cleanup"
    /\ \E c \in BagToSet(effects.config_calls) : c[1] = "setNetwork"
    /\ \E c \in BagToSet(effects.config_calls) : c[1] = "removeBonding"

\* The argument of the issued operation op (issued at most once).
IssuedArg(op) == effects.issued[CHOOSE i \in DOMAIN effects.issued : effects.issued[i][1] = op][2]

IsIssued(op) == \E i \in DOMAIN effects.issued : effects.issued[i][1] = op

\* C3: the operations issued on the setup handle are always a prefix of
\* remove_nets, remove_bonds, edit_bonds, add_bonds, add_nets (each at most
\* once, in this order), all five once the scope's exit is reached; when
\* add_nets is issued every bond of the request that is not removed has been
\* handed to add_bonds or edit_bonds, and when remove_bonds is issued every
\* remove-flagged network has been handed to remove_nets.
C3_ScopeOrder ==
    /\ Len(IssuedOps) <= Len(ScopeOps)
    /\ IssuedOps = SubSeq(ScopeOps, 1, Len(IssuedOps))
    /\ InTrace("scope_exit") => IssuedOps = ScopeOps
    /\ IsIssued("add_nets") =>
          /\ IsIssued("add_bonds") /\ IsIssued("edit_bonds")
          /\ \A b \in DOMAIN ovs_bonds :
                "remove" \notin DOMAIN ovs_bonds[b] =>
                    b \in DOMAIN IssuedArg("add_bonds") \cup DOMAIN IssuedArg("edit_bonds")
    /\ IsIssued("remove_bonds") =>
          /\ IsIssued("remove_nets")
          /\ \A n \in DOMAIN ovs_nets :
                "remove" \in DOMAIN ovs_nets[n] => n \in DOMAIN IssuedArg("remove_nets")

\* All five were issued for a request that adds a bond and a network.
C3_Witness ==
    /\ pc = "scope_exit"
    /\ Len(effects.issued) = Len(ScopeOps)
    /\ DOMAIN IssuedArg("add_bonds") # {}
    /\ DOMAIN IssuedArg("add_nets") # {}

\* The three buckets partition the request Q against the snapshot R.
IsPartition(Q, R, add, edit, remove) ==
    /\ DOMAIN remove = {n \in DOMAIN Q : "remove" \in DOMAIN Q[n]}
    /\ DOMAIN add = {n \in DOMAIN Q : "remove" \notin DOMAIN Q[n] /\ n \notin R}
    /\ DOMAIN edit = {n \in DOMAIN Q : "remove" \notin DOMAIN Q[n] /\ n \in R}
    /\ DOMAIN add \cup DOMAIN edit \cup DOMAIN remove = DOMAIN Q
    /\ DOMAIN add \cap DOMAIN edit = {}
    /\ DOMAIN add \cap DOMAIN remove = {}
    /\ DOMAIN edit \cap DOMAIN remove = {}
    /\ \A n \in DOMAIN add : add[n] = Q[n]
    /\ \A n \in DOMAIN edit : edit[n] = Q[n]
    /\ \A n \in DOMAIN remove : remove[n] = Q[n]

\* C5: the three dictionaries _split_setup_actions returns partition the
\* request: remove-flagged names in remove, other names absent from the
\* snapshot in add, the rest in edit, each with its attributes. (The
\* networks' dictionaries are as returned until the edits are merged.)
C5_SplitPartitions ==
    /\ pc = "merge_edits" =>
          IsPartition(ovs_nets, ovs_netinfo.networks,
                      actions.nets2add, actions.nets2edit, actions.nets2remove)
    /\ pc \notin {"start", "idle"} =>
          IsPartition(ovs_bonds, ovs_netinfo.bondings,
                      actions.bonds2add, actions.bonds2edit, actions.bonds2remove)

\* A removal of a network the snapshot lacks, next to an edit.
C5_Witness ==
    /\ pc = "merge_edits"
    /\ \E n \in DOMAIN actions.nets2remove : n \notin ovs_netinfo.networks
    /\ DOMAIN actions.nets2edit # {}

\* The steps of an OVS setup call, in the order the claim lists them.
C9_Sequence ==
    <<"remove_nets", "remove_bonds", "edit_bonds", "add_bonds", "add_nets",
      "scope_exit", "update_running_config", "cleanup", "setup_ipv6autoconf",
      "set_ovs_links_up", "setup_ovs_ip_config", "connectivity_check">>

\* C9: no step is attempted twice, and once a step has raised it is the last
\* step attempted: control has left the function and no later step of the
\* sequence was attempted or has left an effect.
C9_NoRetry ==
    /\ \A i, j \in DOMAIN trace : trace[i] = trace[j] => i = j
    /\ raised_at # None =>
          /\ pc = "raised"
          /\ trace # <<>> /\ trace[Len(trace)] = raised_at
          /\ \A k \in DOMAIN C9_Sequence :
                k > IndexOf(C9_Sequence, raised_at) => ~InTrace(C9_Sequence[k])
    /\ ~InTrace("update_running_config") => BagToSet(effects.config_calls) = {}
    /\ ~InTrace("setup_ipv6autoconf") => BagToSet(effects.autoconf_calls) = {}
    /\ ~InTrace("set_ovs_links_up") => BagToSet(effects.links_up) = {}
    /\ ~InTrace("setup_ovs_ip_config") => BagToSet(effects.ip_calls) = {}

\* The backend cleanup raised, after eight steps.
C9_Witness ==
    /\ pc = "raised"
    /\ raised_at = "cleanup"
    /\ Len(trace) = 8

\* C10: when the connectivity check raises, control leaves the function
\* with that exception and every effect applied before is left as it was.
C10_ConnectivityFailurePropagates ==
    /\ [][(pc = "connectivity_check" /\ pc' # "done")
            => (/\ pc' = "raised"
                /\ raised_at' = "connectivity_check"
                /\ effects' = effects)]_vars
    /\ [](raised_at = "connectivity_check" =>
            /\ pc = "raised"
            /\ IssuedOps = ScopeOps
            /\ BagCardinality(effects.config_calls)
                  = Cardinality(DOMAIN ovs_nets) + Cardinality(DOMAIN ovs_bonds))

\* The check raised after calls of every kind had been made.
C10_Witness ==
    /\ pc = "raised"
    /\ raised_at = "connectivity_check"
    /\ BagToSet(effects.config_calls) # {}
    /\ BagToSet(effects.links_up) # {}
    /\ BagToSet(effects.ip_calls) # {}

\* The request of C19: network net0 on nic eth0 with a static IPv4 address,
\* no bond, and a snapshot without entries.
Net0Attrs ==
    [switch |-> "ovs", nic |-> "eth0", ipv6autoconf |-> FALSE,
     ipaddr |-> "10.0.0.1", netmask |-> "255.0.0.0"]

AddsNet0 ==
    /\ ovs_nets = [n \in {"net0"} |-> Net0Attrs]
    /\ DOMAIN ovs_bonds = {}
    /\ ovs_netinfo.networks = {} /\ ovs_netinfo.bondings = {}

Returned(step) == InTrace(step) /\ raised_at # step

Net0IpCalls ==
    {<<"address.flush", "net0">>,
     <<"address.add", "net0", "10.0.0.1", "255.0.0.0", None>>}

\* C19: for the request that adds net0 on eth0 with a static IPv4 address
\* against an empty snapshot, net0 is in nets2add alone; remove_nets gets no
\* entry and no DHCP client is stopped; add_nets gets net0; the one
\* running-config call is setNetwork(net0, attrs), made only after add_nets
\* was issued and the scope's exit returned; link-up is made once for net0
\* and once for eth0 and for nothing else; the addresses of net0 are flushed
\* before the static address is added, and no DHCP client is run.
C19_AddNet0EndToEnd ==
    AddsNet0 =>
        /\ pc \notin {"start", "idle"} =>
              /\ actions.nets2add = ovs_nets
              /\ DOMAIN actions.nets2edit = {} /\ DOMAIN actions.nets2remove = {}
              /\ DOMAIN actions.bonds2add = {} /\ DOMAIN actions.bonds2edit = {}
              /\ DOMAIN actions.bonds2remove = {}
        /\ IsIssued("remove_nets") => DOMAIN IssuedArg("remove_nets") = {}
        /\ IsIssued("add_nets") => IssuedArg("add_nets") = [n \in {"net0"} |-> Net0Attrs]
        /\ BagToSet(effects.config_calls) # {} =>
              /\ effects.config_calls = SetToBag({<<"setNetwork", "net0", Net0Attrs>>})
              /\ IsIssued("add_nets")
              /\ Returned("add_nets") /\ Returned("scope_exit")
        /\ Returned("update_running_config") =>
              effects.config_calls = SetToBag({<<"setNetwork", "net0", Net0Attrs>>})
        /\ effects.links_up \sqsubseteq SetToBag({"net0", "eth0"})
        /\ Returned("set_ovs_links_up") => effects.links_up = SetToBag({"net0", "eth0"})
        /\ BagToSet(effects.ip_calls) \subseteq Net0IpCalls
        /\ BagIn(<<"address.add", "net0", "10.0.0.1", "255.0.0.0", None>>, effects.ip_calls)
              => BagIn(<<"address.flush", "net0">>, effects.ip_calls)
        /\ Returned("setup_ovs_ip_config") => effects.ip_calls = SetToBag(Net0IpCalls)
        /\ pc = "done" => \A step \in DOMAIN StepOrder : Returned(StepOrder[step])

\* The setup of net0 on eth0 went through to the end.
C19_Witness ==
    /\ AddsNet0
    /\ pc = "done"
    /\ effects.links_up = SetToBag({"net0", "eth0"})
    /\ effects.ip_calls = SetToBag(Net0IpCalls)
    /\ effects.config_calls = SetToBag({<<"setNetwork", "net0", Net0Attrs>>})

\* The names of the request by what the call does with them.
RemovedNets == {n \in DOMAIN ovs_nets : "remove" \in DOMAIN ovs_nets[n]}

EditedNets == {n \in DOMAIN ovs_nets \ RemovedNets : n \in ovs_netinfo.networks}

KeptNets == DOMAIN ovs_nets \ RemovedNets

RemovedBonds == {b \in DOMAIN ovs_bonds : "remove" \in DOMAIN ovs_bonds[b]}

KeptBonds == DOMAIN ovs_bonds \ RemovedBonds

\* C25: every network of the request that is not remove-flagged and is in
\* the snapshot is, with the attributes of the request, in the dictionary
\* handed to remove_nets and in the one handed to add_nets; remove_nets is
\* issued before add_nets, and no other operation on networks is issued.
C25_EditIsRemoveThenAdd ==
    /\ \A n \in EditedNets :
          /\ IsIssued("remove_nets") =>
                /\ n \in DOMAIN IssuedArg("remove_nets")
                /\ IssuedArg("remove_nets")[n] = ovs_nets[n]
          /\ IsIssued("add_nets") =>
                /\ IsIssued("remove_nets")
                /\ n \in DOMAIN IssuedArg("add_nets")
                /\ IssuedArg("add_nets")[n] = ovs_nets[n]
    /\ \A i, j \in DOMAIN effects.issued :
          (effects.issued[i][1] = "remove_nets" /\ effects.issued[j][1] = "add_nets") => i < j
    /\ \A i \in DOMAIN effects.issued :
          effects.issued[i][1] \in {"remove_nets", "remove_bonds", "edit_bonds",
                                    "add_bonds", "add_nets"}

\* An edited network was handed to remove_nets and to add_nets.
C25_Witness ==
    /\ Returned("add_nets")
    /\ EditedNets # {}
    /\ \E n \in EditedNets : "ipaddr" \in DOMAIN IssuedArg("add_nets")[n]

\* The running-config calls the request asks for.
RequestedConfigCalls ==
    {<<"removeNetwork", n>> : n \in RemovedNets}
    \cup {<<"setNetwork", n, ovs_nets[n]>> : n \in KeptNets}
    \cup {<<"removeBonding", b>> : b \in RemovedBonds}
    \cup {<<"setBonding", b, ovs_bonds[b]>> : b \in KeptBonds}

\* C26: the running-config calls made are always among: removeNetwork(name)
\* for a remove-flagged network, setNetwork(name, attrs) for another
\* network, removeBonding(name) and setBonding(name, attrs) likewise, each
\* at most once; when the update has returned every one of them was made
\* once, so there is one call per entry of the request, and an edited
\* network has its set call and no remove call.
C26_OneConfigCallPerEntry ==
    /\ effects.config_calls \sqsubseteq SetToBag(RequestedConfigCalls)
    /\ Returned("update_running_config") =>
          /\ effects.config_calls = SetToBag(RequestedConfigCalls)
          /\ BagCardinality(effects.config_calls)
                = Cardinality(DOMAIN ovs_nets) + Cardinality(DOMAIN ovs_bonds)
          /\ \A c \in BagToSet(effects.config_calls) :
                c[2] \in DOMAIN ovs_nets \cup DOMAIN ovs_bonds
          /\ \A n \in EditedNets :
                /\ CopiesIn(<<"setNetwork", n, ovs_nets[n]>>, effects.config_calls) = 1
                /\ ~BagIn(<<"removeNetwork", n>>, effects.config_calls)

\* The update returned for an edited network and a removed bond.
C26_Witness ==
    /\ Returned("update_running_config")
    /\ EditedNets # {}
    /\ RemovedBonds # {}

\* The steps that follow the exit of the scope.
AfterScope ==
    <<"update_running_config", "cleanup", "setup_ipv6autoconf",
      "set_ovs_links_up", "setup_ovs_ip_config", "connectivity_check">>

\* The steps attempted after the exit of the scope, in order.
AttemptedAfterScope ==
    LET i == CHOOSE k \in DOMAIN trace : trace[k] = "scope_exit"
    IN  SubSeq(trace, i + 1, Len(trace))

\* C27: no step after the scope is attempted unless the exit of the scope
\* returned; the steps attempted after it are a prefix of running-config
\* update, cleanup, IPv6 autoconf, link-up, IP configuration, connectivity
\* check, each at most once, all six when the call returns; the connectivity
\* check is attempted only when the five before it returned, and nothing is
\* attempted after it.
C27_StepsAfterScope ==
    /\ ~Returned("scope_exit") => \A i \in DOMAIN AfterScope : ~InTrace(AfterScope[i])
    /\ Returned("scope_exit") =>
          /\ Len(AttemptedAfterScope) <= Len(AfterScope)
          /\ AttemptedAfterScope = SubSeq(AfterScope, 1, Len(AttemptedAfterScope))
    /\ InTrace("connectivity_check") =>
          /\ \A i \in 1..5 : Returned(AfterScope[i])
          /\ trace[Len(trace)] = "connectivity_check"
    /\ pc = "done" => AttemptedAfterScope = AfterScope /\ raised_at = None

\* A call for a bond went through all the steps.
C27_Witness ==
    /\ pc = "done"
    /\ Len(trace) = 12
    /\ KeptBonds # {}

\* The calls of the IP configuration step the request asks for.
RequestedIpCalls ==
    {<<"dhclient.stop", n>> : n \in RemovedNets \cup EditedNets}
    \cup {<<"address.flush", n>> : n \in KeptNets}
    \cup {<<"address.add", n, Get(ovs_nets[n], "ipaddr"), Get(ovs_nets[n], "netmask"),
            Get(ovs_nets[n], "ipv6addr")>> : n \in KeptNets}
    \cup {<<"dhclient.run", n,
            IF "bonding" \in DOMAIN ovs_nets[n] THEN ovs_nets[n]["bonding"]
            ELSE Get(ovs_nets[n], "nic"),
            IF "blockingdhcp" \in DOMAIN ovs_nets[n] THEN ovs_nets[n]["blockingdhcp"]
            ELSE FALSE>> :
          n \in {m \in KeptNets : Get(ovs_nets[m], "bootproto") = "dhcp"}}

\* C28: the calls of the IP configuration step are always among: a stop of
\* the DHCP client for each remove-flagged or edited network, and for each
\* network that is not remove-flagged a flush, an add of its static
\* addresses, and, if and only if its bootproto is 'dhcp', a run of the DHCP
\* client with the duid source 'bonding', or 'nic' without it, and the
\* blocking flag 'blockingdhcp', or false without it; each at most once, all
\* of them once the step has returned. A call for an added network is made
\* only after every stop, an add only after the flush of the same network,
\* a run only after its add.
C28_IpConfigOrder ==
    /\ effects.ip_calls \sqsubseteq SetToBag(RequestedIpCalls)
    /\ Returned("setup_ovs_ip_config") => effects.ip_calls = SetToBag(RequestedIpCalls)
    /\ \A c \in BagToSet(effects.ip_calls) :
          /\ c[1] # "dhclient.stop" =>
                \A n \in RemovedNets \cup EditedNets :
                    BagIn(<<"dhclient.stop", n>>, effects.ip_calls)
          /\ c[1] = "address.add" => BagIn(<<"address.flush", c[2]>>, effects.ip_calls)
          /\ c[1] = "dhclient.run" =>
                \E d \in BagToSet(effects.ip_calls) : d[1] = "address.add" /\ d[2] = c[2]

\* The step returned after a stop for an edited network and a run of the
\* client that does not block, with a nic as the duid source.
C28_Witness ==
    /\ Returned("setup_ovs_ip_config")
    /\ \E n \in EditedNets : BagIn(<<"dhclient.stop", n>>, effects.ip_calls)
    /\ \E n \in KeptNets : BagIn(<<"dhclient.run", n, "eth1", FALSE>>, effects.ip_calls)

\* The nics of the networks and of the bonds that are not remove-flagged.
KeptNics ==
    {ovs_nets[n]["nic"] : n \in {m \in KeptNets : "nic" \in DOMAIN ovs_nets[m]}}
    \cup UNION {ovs_bonds[b]["nics"] : b \in KeptBonds}

\* C29 as stated: when the link-up step has returned, a link-up call was
\* made for every network name and every bond name of the request and for
\* every nic of a network or bond that is added or edited.
C29_LinkUpEveryTouched ==
    Returned("set_ovs_links_up") =>
        /\ \A n \in DOMAIN ovs_nets \cup DOMAIN ovs_bonds : BagIn(n, effects.links_up)
        /\ \A i \in KeptNics : BagIn(i, effects.links_up)

\* C29, amended: the link-up calls made are always for names of networks and
\* bonds of the request that are not remove-flagged and for their nics; when
\* the step has returned there is one call for every such name, one for each
\* nic of such a network and one for each nic of such a bond (two for a
\* device that is a nic of both), and none for the name of a remove-flagged
\* entry that is not such a nic.
C29_LinkUpAddedAndEdited ==
    LET names == KeptNets \cup KeptBonds
        nets_nics == {ovs_nets[n]["nic"] : n \in {m \in KeptNets : "nic" \in DOMAIN ovs_nets[m]}}
        bonds_nics == UNION {ovs_bonds[b]["nics"] : b \in KeptBonds}
        all == SetToBag(names) (+) SetToBag(nets_nics) (+) SetToBag(bonds_nics)
    IN  /\ effects.links_up \sqsubseteq all
        /\ Returned("set_ovs_links_up") =>
              /\ effects.links_up = all
              /\ \A n \in names \cup KeptNics : BagIn(n, effects.links_up)
              /\ \A n \in (RemovedNets \cup RemovedBonds) \ KeptNics :
                    ~BagIn(n, effects.links_up)

\* The step returned for a request that removes a network and edits a bond.
C29_Witness ==
    /\ Returned("set_ovs_links_up")
    /\ RemovedNets # {}
    /\ \E b \in KeptBonds : b \in ovs_netinfo.bondings /\ BagIn(b, effects.links_up)
    /\ BagIn("eth1", effects.links_up)

\* C30: the autoconf calls made are always an enable or a disable for a
\* network of the request that is not remove-flagged, at most one for each;
\* when the step has returned every such network has exactly one, an enable
\* if and only if its 'ipv6autoconf' is true, and there is no call for a
\* remove-flagged network or for a bond.
C30_AutoconfPerKeptNetwork ==
    /\ \A c \in BagToSet(effects.autoconf_calls) :
          /\ c[1] \in {"enable_ipv6_local_auto", "disable_ipv6_local_auto"}
          /\ c[2] \in KeptNets
          /\ c[2] \notin RemovedNets \cup DOMAIN ovs_bonds
          /\ CopiesIn(c, effects.autoconf_calls) = 1
          /\ "ipv6autoconf" \in DOMAIN ovs_nets[c[2]]
          /\ c[1] = "enable_ipv6_local_auto" <=> ovs_nets[c[2]]["ipv6autoconf"] = TRUE
    /\ Returned("setup_ipv6autoconf") =>
          /\ \A n \in KeptNets :
                CopiesIn(<<"enable_ipv6_local_auto", n>>, effects.autoconf_calls)
                  + CopiesIn(<<"disable_ipv6_local_auto", n>>, effects.autoconf_calls) = 1
          /\ BagCardinality(effects.autoconf_calls) = Cardinality(KeptNets)

\* The step returned with an enable for one network, next to a removed one.
C30_Witness ==
    /\ Returned("setup_ipv6autoconf")
    /\ RemovedNets # {}
    /\ \E n \in KeptNets : BagIn(<<"enable_ipv6_local_auto", n>>, effects.autoconf_calls)

-----------------------------------------------------------------------------
\* Properties of _val_to_py and _normalize (SpecCodec).

\* val is a sequence of two items whose first is the tag.
Tagged(v, tag) == v.type = "list" /\ Len(v.value) = 2 /\ IsStr(v.value[1], tag)

\* item is a pair whose key decodes to a value a mapping can hold.
IsPair(item) == item.type = "list" /\ Len(item.value) = 2

\* C14: once _val_to_py(val) has run: for val = ['uuid', s] with s the text
\* of a UUID the result is that UUID, whichever of its forms s is; for
\* val = ['set', xs] the result is the list of _val_to_py(x) for the x of xs,
\* in order; for val = ['map', ps] the result is the dict that maps
\* _val_to_py(k) to _val_to_py(v) for every pair (k, v) of ps (the last such
\* pair when a key comes twice); and tagged values inside sets and maps come
\* out decoded, as a set of a set of a set and a map to a set do.
C14_TaggedPairsDecoded ==
    codec_pc \in {"decoded", "normalized", "renormalized"} =>
        /\ (Tagged(val, "uuid") /\ val.value[2].type = "str"
                /\ val.value[2].value[1] \in
                      {"11111111-1111-1111-1111-111111111111",
                       "{11111111-1111-1111-1111-111111111111}"})
              => decoded = [type |-> "UUID", value |-> <<"11111111111111111111111111111111">>]
        /\ (Tagged(val, "set") /\ val.value[2].type = "list") =>
              LET xs == val.value[2].value
              IN  IF \E i \in DOMAIN xs : IsRaise(ValToPy(xs[i]))
                  THEN IsRaise(decoded)
                  ELSE /\ decoded.type = "list"
                       /\ Len(decoded.value) = Len(xs)
                       /\ \A i \in DOMAIN xs : decoded.value[i] = ValToPy(xs[i])
        /\ (Tagged(val, "map") /\ val.value[2].type = "list" /\ ~IsRaise(decoded)) =>
              LET ps == val.value[2].value
              IN  /\ decoded.type = "dict"
                  /\ \A i \in DOMAIN ps : IsPair(ps[i])
                  /\ DOMAIN decoded.value = {ValToPy(ps[i].value[1]) : i \in DOMAIN ps}
                  /\ \A i \in DOMAIN ps :
                        (\A j \in DOMAIN ps :
                            ValToPy(ps[j].value[1]) = ValToPy(ps[i].value[1]) => j <= i)
                        => decoded.value[ValToPy(ps[i].value[1])] = ValToPy(ps[i].value[2])
        /\ val = PyList(<<Str("set"), PyList(<<
                    PyList(<<Str("set"), PyList(<<PyList(<<Str("set"), PyList(<<Str("a")>>)>>)>>)>>),
                    PyList(<<Str("uuid"), Str("22222222-2222-2222-2222-222222222222")>>)>>)>>)
              => decoded = PyList(<<PyList(<<PyList(<<Str("a")>>)>>),
                                    [type |-> "UUID",
                                     value |-> <<"22222222222222222222222222222222">>]>>)
        /\ val = PyList(<<Str("map"), PyList(<<
                    PyList(<<Str("a"), PyList(<<Str("set"), PyList(<<>>)>>)>>)>>)>>)
              => decoded = PyDict([k \in {Str("a")} |-> PyList(<<>>)])

\* A map of two pairs, one with a set as its value, was decoded.
C14_Witness ==
    /\ codec_pc = "decoded"
    /\ val = PyList(<<Str("map"), PyList(<<
                PyList(<<Str("a"), PyList(<<Str("set"), PyList(<<>>)>>)>>),
                PyList(<<PyInt(1), Str("a")>>)>>)>>)
    /\ decoded = PyDict([k \in {Str("a"), PyInt(1)} |->
                            IF k = PyInt(1) THEN Str("a") ELSE PyList(<<>>)])

\* C15: once _val_to_py(val) has run, the result is val itself for every val
\* that is not a sequence of two items whose first is 'uuid', 'set' or 'map':
\* a scalar, a sequence of another length, a sequence of two items with
\* another first item.
C15_OtherShapesUnchanged ==
    (/\ codec_pc \in {"decoded", "normalized", "renormalized"}
     /\ ~Tagged(val, "uuid") /\ ~Tagged(val, "set") /\ ~Tagged(val, "map"))
    => decoded = val

\* A sequence of three items that begins with 'set' came back as it was.
C15_Witness ==
    /\ codec_pc = "decoded"
    /\ val = PyList(<<Str("set"), PyList(<<PyInt(1)>>), PyInt(1)>>)
    /\ decoded = val

\* C16: _normalize(heading, decoded) is, for the headings 'ports' and
\* 'interfaces', decoded itself when it is a list and the list of the one
\* item decoded otherwise; for the headings 'tag', 'bond_active_slave',
\* 'bond_mode', 'lacp' and 'mac_in_use', None when decoded is the empty list
\* and decoded itself otherwise; decoded itself for another heading. No
\* heading is of both kinds, and normalizing the result again returns it.
C16_NormalizeCardinality ==
    /\ [](/\ {"ports", "interfaces"} \cap
                {"tag", "bond_active_slave", "bond_mode", "lacp", "mac_in_use"} = {}
          /\ _DB_ENTRIES_WHICH_SHOULD_BE_LIST = {"ports", "interfaces"}
          /\ _DB_ENTRIES_WHICH_SHOULD_NOT_BE_LIST =
                {"tag", "bond_active_slave", "bond_mode", "lacp", "mac_in_use"}
          /\ codec_pc = "normalized" =>
                /\ heading \in {"ports", "interfaces"} =>
                      normalized = IF decoded.type = "list" THEN decoded
                                   ELSE [type |-> "list", value |-> <<decoded>>]
                /\ heading \in {"tag", "bond_active_slave", "bond_mode", "lacp", "mac_in_use"} =>
                      normalized = IF decoded.type = "list" /\ Len(decoded.value) = 0
                                   THEN PyNone ELSE decoded
                /\ heading \notin {"ports", "interfaces", "tag", "bond_active_slave",
                                   "bond_mode", "lacp", "mac_in_use"} =>
                      normalized = decoded)
    /\ [][codec_pc = "normalized" => normalized' = normalized]_vars

\* 'ports' reported as the one string became the list of it, and stayed so
\* when normalized again.
C16_Witness ==
    /\ codec_pc = "renormalized"
    /\ heading = "ports"
    /\ decoded = Str("a")
    /\ normalized = PyList(<<Str("a")>>)

-----------------------------------------------------------------------------
\* Properties of Transaction.commit (SpecVsctl).

\* The latest commit() was one of N >= 1 queued commands.
Committed == last_commit.raised.type # "not run" /\ last_commit.queued # <<>>

\* C6 as stated: a commit of N >= 1 commands either raises with every
\* command's result as it was before, or returns N results of which result i
\* is the one set_raw_result derives from output line i, however many lines
\* the external call printed.
C6_CommitAligned ==
    Committed =>
        \/ /\ last_commit.raised.type # "none"
           /\ Results(last_commit.after) = Results(last_commit.queued)
        \/ /\ last_commit.raised.type = "none"
           /\ last_commit.returned.type = "list"
           /\ Len(last_commit.returned.value) = Len(last_commit.queued)
           /\ \A i \in DOMAIN last_commit.queued :
                 /\ i <= Len(last_commit.out)
                 /\ last_commit.returned.value[i] = SetRawResult(last_commit.out[i])

\* C7: when the external call exits with a non-zero status, commit raises a
\* ConfigNetworkError whose message holds the lines of stderr, in order, and
\* every command's result is what it was before the commit.
C7_FailedCommitAttributesNothing ==
    (Committed /\ last_commit.rc # 0) =>
        /\ last_commit.raised.type = "ConfigNetworkError"
        /\ SelectSeq(Tail(last_commit.raised.msg), LAMBDA t : t # "\n") = last_commit.err
        /\ last_commit.returned = PyNone
        /\ Results(last_commit.after) = Results(last_commit.queued)
        /\ Len(commands) = Len(last_commit.queued) => Results(commands) = Results(last_commit.queued)

\* A second commit failed with two lines of diagnostics and left the results
\* of the first commit in place.
C7_Witness ==
    /\ Committed
    /\ last_commit.rc # 0
    /\ last_commit.err = <<"e1", "e2">>
    /\ Len(commands) = 2
    /\ commands[1].result = PyList(<<<<"a">>, <<"b">>>>)
    /\ commands[2].result = PyNone

\* The place in the arguments after the fixed three where command i starts.
RECURSIVE ArgsOffset(_, _)
ArgsOffset(cmds, i) ==
    IF i = 1 THEN 1 ELSE ArgsOffset(cmds, i - 1) + 1 + Len(cmds[i - 1].cmd)

\* C8: a commit of no command makes no external call; a commit of N >= 1
\* commands makes one, whose argument vector is the tool path, --oneline,
\* --format=json and then, per queued command in the order of add(), a '--'
\* followed by the command's argument vector, and nothing else.
C8_OneExternalCall ==
    last_commit.raised.type # "not run" =>
        /\ last_commit.queued = <<>> => last_commit.calls = <<>>
        /\ last_commit.queued # <<>> =>
              /\ Len(last_commit.calls) = 1
              /\ LET line == last_commit.calls[1]
                     cmds == last_commit.queued
                     args == SubSeq(line, 4, Len(line))
                 IN  /\ Len(line) >= 3
                     /\ line[1] = "/usr/sbin/ovs-vsctl"
                     /\ line[2] = "--oneline"
                     /\ line[3] = "--format=json"
                     /\ Len(args) = ArgsOffset(cmds, Len(cmds)) + Len(cmds[Len(cmds)].cmd)
                     /\ \A i \in DOMAIN cmds :
                           /\ args[ArgsOffset(cmds, i)] = "--"
                           /\ SubSeq(args, ArgsOffset(cmds, i) + 1,
                                     ArgsOffset(cmds, i) + Len(cmds[i].cmd)) = cmds[i].cmd

\* Two commands with different argument vectors went out in one call.
C8_Witness ==
    /\ Committed
    /\ Len(last_commit.queued) = 2
    /\ last_commit.queued[1].cmd = <<>>
    /\ last_commit.queued[2].cmd = <<"--may-exist", "add-br", "br0">>
    /\ Len(last_commit.calls) = 1

-----------------------------------------------------------------------------
\* Properties of DBResultCommand in a batch (SpecDb).

\* The diagnostic result for a line.
Diagnostic(line) ==
    [type |-> "list",
     value |-> <<[type |-> "str", value |-> <<"ERROR: Unable to interpret cmd output">>],
                 [type |-> "str", value |-> line]>>]

\* The line is text that is not JSON.
NotJson(line) == line = <<"a", "\\n", "b">>

\* Line j of the latest commit has no command, or is JSON without the keys
\* of a table and goes to a DBResultCommand.
LineRaises(j) ==
    \/ j > Len(last_commit.queued)
    \/ /\ last_commit.queued[j].kind = "DBResultCommand"
       /\ last_commit.out[j] = <<"{}">>

\* The result the command j of the latest commit has from its own line.
OwnResult(j) ==
    LET line == last_commit.out[j]
    IN  IF last_commit.queued[j].kind = "Command"
        THEN IF line = <<>> THEN PyList(<<>>) ELSE PyList(<<<<"a">>, <<"b">>>>)
        ELSE IF line = <<>> THEN PyNone
        ELSE IF NotJson(line) THEN Diagnostic(line)
        ELSE PyList(<<PyDict([h \in {Str("name"), Str("ports"), Str("tag")} |->
                 IF h = Str("name") THEN Str("br0")
                 ELSE IF h = Str("ports") THEN PyList(<<Str("eth0")>>)
                 ELSE PyNone])>>)

-----------------------------------------------------------------------------
\* Properties of Command.execute (SpecExecute).

Ran == executed.raised.type # "not run"

\* The one external call of an execute() of a command with this argv.
AloneCall(cmd) == <<"/usr/sbin/ovs-vsctl", "--oneline", "--format=json", "--">> \o cmd

\* C17 as stated: the result of a command is None until it is executed;
\* execute() makes one external call that carries the command's argument
\* vector alone, and when the call printed the command's line and execute()
\* returns, it returns the command's result, which is not None for a command
\* of either class.
C17_ExecuteGivesResult ==
    /\ ~Ran => self.result = PyNone
    /\ Ran => executed.calls = <<AloneCall(executed.before.cmd)>>
    /\ (Ran /\ executed.raised.type = "none" /\ Len(executed.out) = 1) =>
          /\ executed.returned = self.result
          /\ executed.returned # PyNone

\* C17, amended: the result of a command is None until it is executed;
\* execute() makes one external call that carries the command's argument
\* vector alone, and when it returns it returns the command's result. When
\* the call printed the command's line, that result is a list for a Command,
\* and for a DBResultCommand None when the line is empty and a list
\* otherwise; when the call printed no line, or exited with a status other
\* than 0, the result is what it was before.
C17_ExecuteReturnsResult ==
    /\ ~Ran => self.result = PyNone
    /\ Ran => /\ executed.calls = <<AloneCall(executed.before.cmd)>>
              /\ self.cmd = executed.before.cmd
    /\ (Ran /\ executed.raised.type = "none") =>
          /\ executed.returned = self.result
          /\ Len(executed.out) <= 1
          /\ Len(executed.out) = 0 => executed.returned = executed.before.result
          /\ Len(executed.out) = 1 =>
                IF executed.before.kind = "DBResultCommand" /\ executed.out[1] = <<>>
                THEN executed.returned = PyNone
                ELSE executed.returned.type = "list"
    /\ (Ran /\ executed.rc # 0) =>
          /\ executed.raised.type = "ConfigNetworkError"
          /\ self.result = executed.before.result

\* A list command was executed, answered with an empty line, and returned
\* None.
C17_Witness ==
    /\ Ran
    /\ executed.before = NewDBResultCommand(<<"list", "Bridge">>)
    /\ executed.out = <<<<>>>>
    /\ executed.raised.type = "none"
    /\ executed.returned = PyNone

-----------------------------------------------------------------------------
\* Properties of attach_bond_slave and detach_bond_slave (SpecBondSlave).

\* The number of calls whose commands the transaction holds.
Calls == Len(commands) \div 2

\* The token that defines the placeholder of call k, and the one that uses
\* it.
Defines(k) == commands[2 * k - 1].cmd[1]

Uses(k) == commands[2 * k].cmd[5]

\* C18: every call adds two commands of which the first starts with
\* '--id=@X' and the second ends with '@X' for one X, and the X of two calls
\* whose commands are in the same transaction differ.
C18_PlaceholdersUnique ==
    /\ Len(commands) = 2 * Calls
    /\ \A k \in 1..Calls :
          /\ \E x \in uuids : Defines(k) = "--id=@" \o x /\ Uses(k) = "@" \o x
          /\ Len(commands[2 * k - 1].cmd) = 4
          /\ Len(commands[2 * k].cmd) = 5
    /\ \A k, l \in 1..Calls :
          k # l => Defines(k) # Defines(l) /\ Uses(k) # Uses(l)

\* An attach and a detach of the same slave of the same bond are in one
\* transaction.
C18_Witness ==
    /\ Calls = 2
    /\ commands[1].cmd[2] = "create" /\ commands[3].cmd[2] = "get"
    /\ commands[2].cmd[3] = commands[4].cmd[3]
    /\ commands[1].cmd[4] = "name=eth0" /\ commands[3].cmd[4] = "eth0"

-----------------------------------------------------------------------------
\* Properties of netinfo (SpecNetinfo).

\* The networks of the running configuration with switch 'ovs' and bridged
\* false.
RunningBridgeless ==
    {n \in DOMAIN host.running_networks :
        /\ "switch" \in DOMAIN host.running_networks[n]
        /\ "bridged" \in DOMAIN host.running_networks[n]
        /\ host.running_networks[n]["switch"] = "ovs"
        /\ host.running_networks[n]["bridged"] = FALSE}

\* C20: when netinfo() returns and the OVS service is not running, it
\* returns what netinfo_get() reported; when the service is running, every
\* entry of every kind of the OVS topology is in the result under its name,
\* in the place of the legacy entry of that kind and name if there was one,
\* the legacy entries of other names and of other kinds are kept, and the
\* networks handed to fake_bridgeless, which are the ones reported as not
\* bridged by OVS in the result, are the networks of the running
\* configuration with switch 'ovs' and bridged false.
C20_NetinfoOverlay ==
    netinfo_call.pc = "done" =>
        IF ~host.service_running
        THEN netinfo_call.returned = host.legacy
        ELSE /\ DOMAIN netinfo_call.returned = DOMAIN host.legacy
             /\ \A kind \in DOMAIN netinfo_call.returned :
                   IF kind \in DOMAIN netinfo_call.ovs_netinfo
                   THEN /\ DOMAIN netinfo_call.returned[kind]
                              = DOMAIN host.legacy[kind] \cup DOMAIN netinfo_call.ovs_netinfo[kind]
                        /\ \A name \in DOMAIN netinfo_call.ovs_netinfo[kind] :
                              netinfo_call.returned[kind][name] = netinfo_call.ovs_netinfo[kind][name]
                        /\ \A name \in DOMAIN host.legacy[kind] \ DOMAIN netinfo_call.ovs_netinfo[kind] :
                              netinfo_call.returned[kind][name] = host.legacy[kind][name]
                        /\ \A name \in DOMAIN host.ovs[kind] :
                              /\ name \in DOMAIN netinfo_call.returned[kind]
                              /\ name \notin RunningBridgeless =>
                                    netinfo_call.returned[kind][name] = host.ovs[kind][name]
                   ELSE netinfo_call.returned[kind] = host.legacy[kind]
             /\ netinfo_call.bridgeless_ovs_nets = RunningBridgeless
             /\ {n \in DOMAIN netinfo_call.returned["networks"] :
                    /\ netinfo_call.returned["networks"][n]["switch"] = "ovs"
                    /\ ~netinfo_call.returned["networks"][n]["bridged"]} = RunningBridgeless

\* net0 is reported by both sides and has no bridge, net1 by the legacy side
\* alone, bond0 by both sides; the result has the synthesized net0, the
\* legacy net1 and the OVS bond0.
C20_Witness ==
    /\ netinfo_call.pc = "done"
    /\ host.service_running
    /\ DOMAIN host.legacy["networks"] = {"net0", "net1"}
    /\ DOMAIN host.ovs["networks"] = {"net0"}
    /\ DOMAIN host.legacy["bondings"] = {"bond0"}
    /\ DOMAIN host.ovs["bondings"] = {"bond0"}
    /\ RunningBridgeless = {"net0"}
    /\ netinfo_call.returned["networks"]["net0"]["bridged"] = FALSE
    /\ netinfo_call.returned["networks"]["net1"] = LegacyNet("net1")
    /\ netinfo_call.returned["bondings"]["bond0"] = OvsBond("bond0")

-----------------------------------------------------------------------------
\* Properties of DynamicBarrier (SpecBarrier).

Inside == {th \in Threads : tpc[th] = "inside"}

\* C21: at most one thread is between an enter() that returned True and its
\* exit(), and the barrier is busy exactly when there is one; enter() has
\* returned False to a thread only if a thread that entered after its call
\* has exited since; an exit() while no thread is inside raises
\* AssertionError and leaves the barrier not busy, and an exit() of the
\* thread inside never raises.
C21_BarrierExcludes ==
    /\ [](/\ Cardinality(Inside) <= 1
          /\ busy <=> Inside # {}
          /\ \A th \in Threads : tpc[th] = "skipped" => served.done[th])
    /\ [][\A th \in Threads :
            /\ (tpc[th] # "inside" /\ tpc'[th] = "inside") => (~busy /\ Inside = {})
            /\ (exit_raised' # exit_raised /\ exit_raised'.thread = th) =>
                  IF tpc[th] = "inside"
                  THEN exit_raised'.raised = None /\ ~busy'
                  ELSE /\ Inside = {}
                       /\ exit_raised'.raised = "AssertionError"
                       /\ ~busy' /\ tpc' = tpc]_vars

\* One thread was told that the work was done for it while the other was
\* outside again, after an exit() without enter() had raised.
C21_Witness ==
    /\ tpc[1] = "skipped"
    /\ tpc[2] = "idle"
    /\ ~busy
    /\ exit_raised.raised = "AssertionError"

-----------------------------------------------------------------------------
\* Properties of SamplingMethod (SpecSampling).

\* The result of the last evaluation among the first n that returned, 0
\* when none did.
RECURSIVE LastSuccess(_)
LastSuccess(n) ==
    IF n = 0 THEN 0
    ELSE IF evaluations[n] = "returned" THEN n
    ELSE LastSuccess(n - 1)

Returned22 == {th \in Threads : sm_calls[th].state = "returned"}

\* The function never runs in two threads at once, a call that waited
\* raises nothing, and a call that ran the function raises exactly when the
\* function did.
EvaluatedOnce ==
    /\ Cardinality({th \in Threads : tpc[th] \in {"inside", "finally"}}) <= 1
    /\ \A th \in Threads :
          /\ sm_calls[th].state = "raised" =>
                /\ ~sm_calls[th].waited \/ sm_calls[th].evaluation > sm_calls[th].started
                /\ evaluations[sm_calls[th].evaluation] = "raised"
                /\ tpc[th] = "idle"
          /\ sm_calls[th].state = "returned" =>
                /\ sm_calls[th].evaluation > sm_calls[th].started
                /\ evaluations[sm_calls[th].evaluation] # "running"

-----------------------------------------------------------------------------
\* Properties of itmap (SpecItmap).

\* The number of workers that were started.
StartedCount ==
    IF itmap_pc = "created" \/ itmap_locals.raised = "ValueError" THEN 0
    ELSE Len(itmap_args.iterable) - Len(itmap_locals.iterable)

\* The workers that were started and whose item is not taken from respQueue.
Outstanding == Cardinality(workers) + Len(respQueue)

\* C23: with maxthreads = N >= 1 there are never more than N workers started
\* whose item has not been taken from the response queue, and a worker is
\* started while N are outstanding only after an item was taken and yielded;
\* when the generator ends it has yielded one item per element, the
\* exception where func raised, and nothing was raised; with N < 1 and N not
\* UNLIMITED_THREADS nothing but ValueError happens and no worker starts.
C23_ItmapBounded ==
    /\ [](/\ itmap_args.maxthreads >= 1 =>
                /\ Outstanding <= itmap_args.maxthreads
                /\ StartedCount <= Len(yielded) + itmap_args.maxthreads
          /\ ~WrongInput(itmap_args.maxthreads) =>
                /\ itmap_locals.raised = None
                /\ StartedCount = Len(yielded) + Outstanding
                /\ itmap_pc = "done" =>
                      /\ Len(yielded) = Len(itmap_args.iterable)
                      /\ \A k \in DOMAIN itmap_args.iterable :
                            \E n \in DOMAIN yielded :
                                yielded[n] = Wrapper(itmap_args, itmap_args.iterable[k])
          /\ WrongInput(itmap_args.maxthreads) =>
                /\ itmap_pc \in {"created", "raised"}
                /\ itmap_pc = "raised" => itmap_locals.raised = "ValueError"
                /\ workers = {} /\ respQueue = <<>> /\ yielded = <<>>)
    /\ [][(itmap_args.maxthreads >= 1 /\ workers' # workers /\ workers \subseteq workers')
             => Outstanding < itmap_args.maxthreads]_vars

\* With maxthreads = 2 and three elements, func raising for the second, the
\* generator has ended after yielding the three items, the exception among
\* them, in another order than that of the iterable.
C23_Witness ==
    /\ itmap_args.maxthreads = 2
    /\ Len(itmap_args.iterable) = 3
    /\ itmap_pc = "done"
    /\ Len(yielded) = 3
    /\ yielded[1] = [kind |-> "exception", of |-> 2]
    /\ yielded[3] = [kind |-> "result", of |-> 1]

-----------------------------------------------------------------------------
\* Properties of DynamicBoundedSemaphore and its tests (SpecSemaphore).

-----------------------------------------------------------------------------
\* Properties of DBResultCommand.set_raw_result on tables (SpecTable).

ReplyHeadings == reply.value[Str("headings")].value

ReplyRows == reply.value[Str("data")].value

\* The headings are distinct and every row has a cell for every heading.
WellFormed ==
    /\ \A p, q \in DOMAIN ReplyHeadings : ReplyHeadings[p] = ReplyHeadings[q] => p = q
    /\ \A i \in DOMAIN ReplyRows : Len(ReplyRows[i].value) = Len(ReplyHeadings)

\* C31: for a well-formed reply the result is a list with one mapping per
\* row of the data, in the order of the rows; the keys of each mapping are
\* exactly the headings, and the value under the heading at position p is
\* _normalize(heading, _val_to_py(cell)) of the cell of the row at p.
C31_TableResult ==
    (db_result # NotDecoded /\ WellFormed) =>
        /\ db_result.type = "list"
        /\ Len(db_result.value) = Len(ReplyRows)
        /\ \A i \in DOMAIN ReplyRows :
              /\ db_result.value[i].type = "dict"
              /\ DOMAIN db_result.value[i].value =
                    {ReplyHeadings[p] : p \in DOMAIN ReplyHeadings}
              /\ \A p \in DOMAIN ReplyHeadings :
                    db_result.value[i].value[ReplyHeadings[p]] =
                        Normalize(ReplyHeadings[p].value[1],
                                  ValToPy(ReplyRows[i].value[p]))

\* Two rows under the headings ports and tag: the string under ports has
\* become a list, the empty set under tag None, and the second row differs.
C31_Witness ==
    /\ db_result # NotDecoded
    /\ WellFormed
    /\ ReplyHeadings = <<Str("ports"), Str("tag")>>
    /\ Len(ReplyRows) = 2
    /\ db_result.value[1].value[Str("ports")] = PyList(<<Str("a")>>)
    /\ db_result.value[1].value[Str("tag")] = PyNone
    /\ db_result.value[2].value[Str("tag")] = Str("a")

-----------------------------------------------------------------------------
\* Properties of the path lookup (SpecLookup).

\* The commits so far that ran the tool.
Executing == {i \in DOMAIN commit_log : commit_log[i] # None}

\* C32: the path is not looked up before the first commit of a non-empty
\* transaction, it is looked up once however many commits follow, and every
\* commit executes the path that the first lookup gave, also when the tool
\* is elsewhere by then.
C32_LookupOnceAndCached ==
    /\ [](/\ lookups = (IF Executing = {} THEN 0 ELSE 1)
          /\ Executing = {} <=> cmd_cache = None
          /\ \A i \in Executing : commit_log[i] = cmd_cache)
    /\ [][/\ cmd_cache # None => cmd_cache' = cmd_cache
          /\ lookups' # lookups => (queued # 0 /\ cmd_cache' = installed)]_vars

\* An empty commit, then two commits that ran the tool at the path of the
\* first lookup, the second when the tool was at the other path.
C32_Witness ==
    /\ Len(commit_log) = 3
    /\ commit_log[1] = None
    /\ commit_log[2] = "/usr/sbin/ovs-vsctl"
    /\ commit_log[3] = "/usr/sbin/ovs-vsctl"
    /\ installed = "/usr/bin/ovs-vsctl"
    /\ lookups = 1

-----------------------------------------------------------------------------
\* Freshness of DynamicBarrier (SpecBarrier).

\* C33: a call of enter() returns False only from its second wait, and only
\* when another thread has got in after the call began and has called
\* exit() since; the second wait is a wait for a thread that got in after
\* the call began, never for the operation that was in progress when the
\* call was made.
C33_SkippedIsFresh ==
    /\ [](\A th \in Threads :
            /\ tpc[th] \in {"woken2", "skipped"} => served.done[th]
            /\ tpc[th] = "wait2" => (served.after[th] \/ served.done[th])
            /\ served.after[th] => \E x \in Threads \ {th} : tpc[x] = "inside"
            /\ tpc[th] = "wait1" => ~served.done[th])
    /\ [][\A th \in Threads :
            /\ (tpc'[th] = "skipped" /\ tpc[th] # "skipped") => tpc[th] = "woken2"
            /\ (served'.done[th] /\ ~served.done[th]) =>
                  \E x \in Threads \ {th} :
                      tpc[x] = "inside" /\ tpc'[x] = "idle" /\ served.after[th]
            /\ (served'.after[th] /\ ~served.after[th]) =>
                  /\ tpc[th] \in {"wait1", "woken1", "wait2", "woken2"}
                  /\ \E x \in Threads \ {th} : tpc[x] # "inside" /\ tpc'[x] = "inside"]_vars

\* Thread 3 has got False from enter() while thread 1, which was inside when
\* thread 3 called, is outside again and thread 2 has the next operation in
\* progress.
C33_Witness ==
    /\ tpc[3] = "skipped"
    /\ served.done[3]
    /\ tpc[2] = "inside"
    /\ tpc[1] = "wait1"

-----------------------------------------------------------------------------
\* The dispatch of setup (SpecRouter).

LegacyWork == DOMAIN Split.legacy_nets \cup DOMAIN Split.legacy_bonds # {}

OvsWork == DOMAIN Split.ovs_nets \cup DOMAIN Split.ovs_bonds # {}

\* C34: a setup call invokes at most one of the two paths, whatever validate
\* said of the request: the legacy path, with the legacy buckets only, when
\* the legacy buckets hold an entry (setup raises nothing for the OVS entries
\* it leaves out), else the OVS path with the OVS buckets when they hold an
\* entry, else no path; and no path when the bucketing raises.
C34_OnePathPerSetup ==
    phase = "done" =>
        /\ dispatched.call.switch \in {LEGACY_SWITCH_TYPE, OVS_SWITCH_TYPE, None}
        /\ dispatched.call.switch = None <=> dispatched.backend = "none"
        /\ Split.errors # {} =>
              dispatched.call = NoCall /\ dispatched.error \in Split.errors
        /\ (Split.errors = {} /\ LegacyWork) =>
              /\ dispatched.error = NoError
              /\ dispatched.call = [switch |-> LEGACY_SWITCH_TYPE,
                                    nets |-> Split.legacy_nets,
                                    bonds |-> Split.legacy_bonds]
        /\ (Split.errors = {} /\ ~LegacyWork /\ OvsWork) =>
              /\ dispatched.error = NoError
              /\ dispatched.call = [switch |-> OVS_SWITCH_TYPE,
                                    nets |-> Split.ovs_nets,
                                    bonds |-> Split.ovs_bonds]
        /\ (Split.errors = {} /\ ~LegacyWork /\ ~OvsWork) =>
              dispatched = Outcome(NoError, NoCall, "none")

\* A request with a legacy network and an OVS bond, which validate had
\* rejected, was set up: the legacy path ran with the network alone.
C34_Witness ==
    /\ phase = "done"
    /\ Split.errors = {}
    /\ LegacyWork /\ OvsWork
    /\ DOMAIN Split.ovs_bonds # {}
    /\ validated.error.type = "ConfigNetworkError"
    /\ dispatched.call.switch = LEGACY_SWITCH_TYPE
    /\ dispatched.call.bonds = EmptyDict
    /\ dispatched.backend = "returned"

-----------------------------------------------------------------------------
\* validate and setup of one request with another setup call in between
\* (SpecRouterRace).

\* validate accepted the request: it raised nothing and neither did the
\* backend's validation, if one was called.
Accepted == validated.error = NoError /\ validated.backend # "raised"

\* The running configuration validate read.
RunningAtValidate == IF raced = NotRaced THEN running ELSE raced

\* The bucketing validate made.
SplitAtValidate == SplitSwitchType(networks, bondings, RunningAtValidate)

\* The running configuration records the same switch type at validate and
\* at setup for every remove-flagged entry of the request.
RemovedRecordedAlike ==
    /\ \A n \in DOMAIN networks :
          "remove" \in DOMAIN networks[n] =>
              Recorded(n, RunningAtValidate.networks) = Recorded(n, running.networks)
    /\ \A b \in DOMAIN bondings :
          "remove" \in DOMAIN bondings[b] =>
              Recorded(b, RunningAtValidate.bondings) = Recorded(b, running.bondings)

\* C35 as stated: a request validate accepted is dispatched by setup to the
\* backend validate selected with the buckets validate made, also when
\* another setup call has changed the running configuration in between.
C35_SameBucketsAlways ==
    (phase = "done" /\ Accepted) =>
        dispatched.error = NoError /\ dispatched.call = validated.call

\* C35 amended: setup reads the running configuration anew, so it repeats
\* the bucketing of validate, and calls the backend validate selected with
\* the same entries, when the running configuration records for every
\* remove-flagged entry of the request the switch type it recorded at
\* validate; entries that are not remove-flagged are bucketed by their own
\* 'switch' whatever has changed.
C35_SameBucketsIfRemovedAlike ==
    /\ (phase = "done" /\ Accepted /\ RemovedRecordedAlike) =>
          dispatched.error = NoError /\ dispatched.call = validated.call
    /\ phase = "done" =>
          \A n \in DOMAIN networks :
              "remove" \notin DOMAIN networks[n] =>
                  /\ n \in DOMAIN SplitAtValidate.legacy_nets
                        <=> n \in DOMAIN Split.legacy_nets
                  /\ n \in DOMAIN SplitAtValidate.ovs_nets
                        <=> n \in DOMAIN Split.ovs_nets

\* Another setup call changed the running configuration of a network the
\* request does not remove, and setup made the OVS call validate had
\* selected, a removal among its entries.
C35_Witness ==
    /\ phase = "done"
    /\ Accepted
    /\ raced # NotRaced
    /\ RemovedRecordedAlike
    /\ \E n \in DOMAIN networks : "remove" \in DOMAIN networks[n]
    /\ dispatched.call.switch = OVS_SWITCH_TYPE
    /\ dispatched.call = validated.call


\* ---------------------------------------------------------------------
\* Bonds of an OVS setup
\* ---------------------------------------------------------------------

EditedBonds == {b \in KeptBonds : b \in ovs_netinfo.bondings}

BondOps == {"remove_bonds", "edit_bonds", "add_bonds"}

\* The bond operations issued so far whose dictionary holds bond b.
HandledBy(b) ==
    {i \in DOMAIN effects.issued :
        effects.issued[i][1] \in BondOps /\ b \in DOMAIN effects.issued[i][2]}

\* C36: a bond of the request that is not remove-flagged and is in the
\* snapshot is handed to edit_bonds, with the attributes of the request, by
\* the one edit_bonds call, and is in neither the dictionary handed to
\* remove_bonds nor the one handed to add_bonds; every bond of the request
\* is in the dictionary of at most one of remove_bonds, edit_bonds and
\* add_bonds, and of exactly one once all three were issued.
C36_BondHandledOnce ==
    /\ Cardinality({i \in DOMAIN effects.issued :
                        effects.issued[i][1] = "edit_bonds"}) <= 1
    /\ \A b \in EditedBonds :
          /\ IsIssued("edit_bonds") =>
                /\ b \in DOMAIN IssuedArg("edit_bonds")
                /\ IssuedArg("edit_bonds")[b] = ovs_bonds[b]
          /\ IsIssued("remove_bonds") => b \notin DOMAIN IssuedArg("remove_bonds")
          /\ IsIssued("add_bonds") => b \notin DOMAIN IssuedArg("add_bonds")
    /\ \A b \in DOMAIN ovs_bonds :
          /\ Cardinality(HandledBy(b)) <= 1
          /\ IsIssued("add_bonds") => Cardinality(HandledBy(b)) = 1
    /\ \A i \in DOMAIN effects.issued :
          effects.issued[i][1] \in BondOps =>
             DOMAIN effects.issued[i][2] \subseteq DOMAIN ovs_bonds

\* The three bond operations returned for a request that edits a bond.
C36_Witness ==
    /\ Returned("add_bonds")
    /\ EditedBonds # {}
    /\ \E b \in EditedBonds : HandledBy(b) # {}

\* C37: the link-up step makes exactly one link-up call for each device it
\* brings up: no device has two calls in one setup, whether it is both a
\* requested name and a nic or a nic of both a network and a bond.
C37_OneLinkUpPerDevice ==
    \A dev \in BagToSet(effects.links_up) : CopiesIn(dev, effects.links_up) = 1

\* ---------------------------------------------------------------------
\* DynamicBarrier: every call of enter() returns
\* ---------------------------------------------------------------------

\* C38: when every thread that is woken goes on and every thread whose
\* enter() returned True calls exit(), a thread that is inside enter(), in
\* the first wait or in the second, woken or not, eventually has its call
\* return, True or False, whatever the other threads do and whenever they
\* call enter().
C38_EnterReturns ==
    \A th \in Threads :
        (tpc[th] \in {"wait1", "woken1", "wait2", "woken2"})
            ~> (tpc[th] \in {"inside", "skipped"})

\* One thread is in its second wait and another in its first while a third
\* is between enter() and exit().
C38_Witness ==
    \E a, b, c \in Threads :
        tpc[a] = "wait2" /\ tpc[b] = "wait1" /\ tpc[c] = "inside"

\* ---------------------------------------------------------------------
\* misc.Event: oneshot and kept handlers
\* ---------------------------------------------------------------------

InvokedBy(func, e) ==
    {i \in BagToSet(invocations) : i[1] = func /\ i[2] = e}

CopiesOf(func, e) == CopiesIn(<<func, e, How>>, invocations)

\* What holds in every state.
EventInvariant ==
    /\ \A func \in Funcs :
          /\ funcs[func].mode = "oneshot" =>
                /\ Len(funcs[func].since) <= 1
                /\ Len(funcs[func].since) = 1 => func \notin DOMAIN registrar
          /\ \A e \in 1..MaxEmits :
                /\ CopiesOf(func, e) <= 1
                /\ InvokedBy(func, e) # {} =>
                      e \in DOMAIN emissions /\ emissions[e].state = "ran"
    /\ \A e \in DOMAIN emissions :
          emissions[e].seen = 0 =>
             /\ emissions[e].state = "no_thread"
             /\ \A func \in Funcs : InvokedBy(func, e) = {}

\* Emission e goes from started to ran in this step: its thread runs _emit.
Runs(e) == emissions[e].state = "started" /\ emissions'[e].state = "ran"

\* What this step does with func, that was registered when it began.
InvokedOnceAndKept(func, e) ==
    /\ CopiesOf(func, e) = 0
    /\ CopiesIn(<<func, e, How>>, invocations') = 1
    /\ IF registrar[func]
       THEN func \notin DOMAIN registrar'
       ELSE func \in DOMAIN registrar' /\ ~registrar'[func]

DroppedUninvoked(func, e) ==
    /\ \A i \in BagToSet(invocations') : i[1] # func \/ i[2] # e
    /\ func \notin DOMAIN registrar'

\* C39: a function registered with oneshot=True is invoked by at most one
\* emission from that registration on and is out of the registrar once it
\* was invoked, however many emit() calls were made and in whatever order
\* their threads run; every function that is registered when the thread of
\* an emission runs _emit is invoked exactly once by it, and stays
\* registered when it was registered without oneshot; an emit() that finds
\* the registrar empty starts no thread and invokes nothing.
C39_KeptInvokedEveryTime ==
    /\ []EventInvariant
    /\ [][\A e \in DOMAIN emissions :
             Runs(e) => \A func \in DOMAIN registrar : InvokedOnceAndKept(func, e)]_vars

\* C39, amended: as above for the functions that are still referenced when
\* _emit runs; the registrar holds a weak reference only, and an entry whose
\* function is gone is dropped by the next _emit without an invocation,
\* with oneshot or without.
C39_OneshotOnceKeptWhileAlive ==
    /\ []EventInvariant
    /\ [][\A e \in DOMAIN emissions :
             Runs(e) => \A func \in DOMAIN registrar :
                           IF funcs[func].alive
                           THEN InvokedOnceAndKept(func, e)
                           ELSE DroppedUninvoked(func, e)]_vars

\* Two emissions were started while a oneshot function and a kept one were
\* registered; both ran: the first invoked both functions, the second the
\* kept one only.
C39_Witness ==
    /\ Len(emissions) = 2
    /\ emissions[1] = [seen |-> 2, state |-> "ran"]
    /\ emissions[2] = [seen |-> 2, state |-> "ran"]
    /\ funcs["f"].mode = "oneshot" /\ Len(funcs["f"].since) = 1
    /\ "f" \notin DOMAIN registrar
    /\ "g" \in DOMAIN registrar
    /\ CopiesOf("g", 1) = 1 /\ CopiesOf("g", 2) = 1

=========================================================================
